---- MODULE Spec2Model ----
(***************************************************************************)
(* Media rehosting cache of the importer: m2mr/media/cache_rg_image.py     *)
(* (the cache orchestrator cache_rg_image_to_blob and its helpers) as it   *)
(* is called by the photo handlers of the batch drivers under scripts/.    *)
(*                                                                         *)
(* Every await of the Python code is one step of a task: a mapping-store   *)
(* round trip, one HTTP fetch, one object-store put or head.  A backoff    *)
(* sleep changes no program state; it is recorded (attempt, milliseconds)  *)
(* by the step that decides to retry.                                      *)
(***************************************************************************)
EXTENDS Integers, Sequences, FiniteSets, TLC

(***************************************************************************)
(* Bounds of the model.                                                    *)
(***************************************************************************)
NumTasks == 2           \* photo handlers that may be in flight together
MaxConcurrency == 2     \* largest --concurrency argument
MaxCalls == 2           \* resolve calls started in one run
MaxFaults == 2          \* failing collaborator responses in one run
SeqCalls == 2           \* resolve calls of a run with --concurrency 1
SeqFaults == 5          \* failing collaborator responses of such a run
MaxAttemptsArg == 6     \* largest `attempts` argument of the download loop
MaxRuns == 2            \* runs of a driver script, one after the other
RunFaults == 2          \* failing collaborator responses over those runs
MaxLimit == 1           \* largest --limit argument
MaxGone == 1            \* images the vendor removes while the drivers run
PassFaults == 5         \* failing collaborator responses of a --concurrency 1 pass
PairFaults == 2         \* failing answers of the mapping store to calls side by side
StoreFaults == 3        \* failing collaborator responses while the vendor changes
OneCalls == 2           \* resolve calls of a run in which every collaborator may fail
OneFaults == 12         \* failing collaborator responses of such a run

(***************************************************************************)
(* Program constants.                                                      *)
(***************************************************************************)
DownloadAttempts == 5   \* _download_with_retries(attempts=5)
PutAttempts == 4        \* _blob_put_with_retries(attempts=4)
DbAttempts == 3         \* for attempt in range(3)
BackoffCap == 15        \* min(2**attempt, 15)
JitterMaxMs == 350      \* random.random() * 0.35, in milliseconds
ErrLimit == 200         \* photo["rehostError"] = str(e)[:200]

RETRYABLE_HTTP_STATUS == {429, 500, 502, 503, 504}

None == "None"
NoCT == "None"

Min(a, b) == IF a < b THEN a ELSE b
Max(a, b) == IF a > b THEN a ELSE b

(***************************************************************************)
(* URLs.  A URL is what urlparse makes of it: six components.              *)
(***************************************************************************)
Url(path, query, fragment) ==
    [scheme |-> "https", netloc |-> "cdn.rescuegroups.org", path |-> path,
     params |-> "", query |-> query, fragment |-> fragment]

\* a path long enough for an error message that quotes the URL to pass
\* the length the drivers keep of it
LongPath ==
    "/pictures/animals/18000/18000123/a-very-long-descriptive-file-name"
      \o "-kept-by-the-shelter-software-when-the-photo-was-uploaded"
      \o "-from-a-phone-camera-roll-export-original-full-size-copy-2.jpg"

RawUrls ==
    { Url("/a.jpg", "", ""), Url("/a.jpg", "width=100", "top"),
      Url(LongPath, "", "") }

\* urlunparse of the six components, for a URL with a host or with neither
\* host nor scheme
urlunparse(u) ==
    LET url == u.path \o (IF u.params = "" THEN "" ELSE ";" \o u.params)
        rooted == IF url # "" /\ SubSeq(url, 1, 1) # "/" THEN "/" \o url ELSE url
        hier == IF u.netloc # "" THEN "//" \o u.netloc \o rooted ELSE url
    IN  (IF u.scheme = "" THEN "" ELSE u.scheme \o ":") \o hier
          \o (IF u.query = "" THEN "" ELSE "?" \o u.query)
          \o (IF u.fragment = "" THEN "" ELSE "#" \o u.fragment)

\* s.find(ch, from) and s.rfind(ch), counted from 1; 0 when ch is not there
RECURSIVE Find(_, _, _)
Find(s, ch, from) ==
    IF from > Len(s) THEN 0
    ELSE IF SubSeq(s, from, from) = ch THEN from
    ELSE Find(s, ch, from + 1)

RECURSIVE RFind(_, _, _)
RFind(s, ch, upto) ==
    IF upto < 1 THEN 0
    ELSE IF SubSeq(s, upto, upto) = ch THEN upto
    ELSE RFind(s, ch, upto - 1)

\* s[i:], counted from 1
Rest(s, i) == SubSeq(s, i, Len(s))

UpperCase == "ABCDEFGHIJKLMNOPQRSTUVWXYZ"
LowerCase == "abcdefghijklmnopqrstuvwxyz"
SchemeChars == LowerCase \o UpperCase \o "0123456789+-."

\* s.lower()
RECURSIVE Lower(_)
Lower(s) ==
    IF s = "" THEN ""
    ELSE LET ch == SubSeq(s, 1, 1)
             i == Find(UpperCase, ch, 1)
         IN  (IF i = 0 THEN ch ELSE SubSeq(LowerCase, i, i)) \o Lower(Rest(s, 2))

\* the schemes urlparse splits the parameters of
uses_params ==
    {"", "ftp", "hdl", "prospero", "http", "imap", "https", "shttp", "rtsp",
     "rtspu", "sip", "sips", "mms", "sftp", "tel"}

\* the least of the places that are there (0: not there), n when none is
First(places, n) ==
    LET there == { i \in places : i # 0 }
    IN  IF there = {} THEN n ELSE CHOOSE i \in there : \A j \in there : i <= j

\* urlparse(url): urlsplit takes the scheme before the first ":", the
\* netloc between "//" and the next "/", "?" or "#", the fragment behind
\* the first "#" and the query behind the first "?"; urlparse then takes the
\* parameters behind the first ";" of the last segment of the path
urlparse(url) ==
    LET colon == Find(url, ":", 1)
        head == SubSeq(url, 1, colon - 1)
        hasScheme ==
            /\ colon > 1
            /\ Find(LowerCase \o UpperCase, SubSeq(head, 1, 1), 1) # 0
            /\ \A i \in 1 .. Len(head) : Find(SchemeChars, SubSeq(head, i, i), 1) # 0
        scheme == IF hasScheme THEN Lower(head) ELSE ""
        r1 == IF hasScheme THEN Rest(url, colon + 1) ELSE url
        hasNetloc == Len(r1) >= 2 /\ SubSeq(r1, 1, 2) = "//"
        delim == First({Find(r1, "/", 3), Find(r1, "?", 3), Find(r1, "#", 3)},
                       Len(r1) + 1)
        netloc == IF hasNetloc THEN SubSeq(r1, 3, delim - 1) ELSE ""
        r2 == IF hasNetloc THEN Rest(r1, delim) ELSE r1
        hash == Find(r2, "#", 1)
        fragment == IF hash = 0 THEN "" ELSE Rest(r2, hash + 1)
        r3 == IF hash = 0 THEN r2 ELSE SubSeq(r2, 1, hash - 1)
        mark == Find(r3, "?", 1)
        query == IF mark = 0 THEN "" ELSE Rest(r3, mark + 1)
        r4 == IF mark = 0 THEN r3 ELSE SubSeq(r3, 1, mark - 1)
        slash == RFind(r4, "/", Len(r4))
        semi == IF scheme \in uses_params
                THEN Find(r4, ";", IF slash = 0 THEN 1 ELSE slash)
                ELSE 0
    IN  [scheme |-> scheme, netloc |-> netloc,
         path |-> IF semi = 0 THEN r4 ELSE SubSeq(r4, 1, semi - 1),
         params |-> IF semi = 0 THEN "" ELSE Rest(r4, semi + 1),
         query |-> query, fragment |-> fragment]

\* urlunparse((p.scheme, p.netloc, p.path, "", "", ""))
_canonicalize_url(u) ==
    [scheme |-> u.scheme, netloc |-> u.netloc, path |-> u.path,
     params |-> "", query |-> "", fragment |-> ""]

\* the batch driver's own copy of the canonicalizer
canonicalize_url(u) ==
    [scheme |-> u.scheme, netloc |-> u.netloc, path |-> u.path,
     params |-> "", query |-> "", fragment |-> ""]

Canons == { _canonicalize_url(u) : u \in RawUrls }

\* the two canonicalizers on the text of a URL, as they are called
OrchestratorKey(text) == urlunparse(_canonicalize_url(urlparse(text)))
DriverKey(text) == urlunparse(canonicalize_url(urlparse(text)))

\* URLs as an input file may hold them: with and without a port, with
\* parameters in the last segment and in an inner one, with a query, with a
\* fragment, and one with its scheme in capitals
CanonInputs ==
    { "https:" \o n \o p \o q \o f :
        n \in {"//cdn.rescuegroups.org", "//CDN.RescueGroups.org:443"},
        p \in {"", "/a.jpg", "/p/a.jpg;v=2", "/p;x/a.jpg"},
        q \in {"", "?width=100", "?u=a;b/c"},
        f \in {"", "#top", "#a?b"} }
      \cup {"HTTPS://cdn.rescuegroups.org/a.jpg?width=100"}

Animals == {"42", "77"}

(***************************************************************************)
(* Payloads and content types.                                             *)
(***************************************************************************)
Payloads == {"jpegA", "junkB"}

\* hashlib.sha256(data).hexdigest(): one digest per payload, no collisions
Sha256(data) == "sha[" \o data \o "]"

\* len(data)
SizeBytes(data) == IF data = "jpegA" THEN "2048" ELSE "7"

\* Image.open(BytesIO(data)): the decoded format and size, None when the
\* payload is no decodable image
PilFormat(data) == IF data = "jpegA" THEN "JPEG" ELSE None
PilSize(data) == IF data = "jpegA" THEN <<"640", "480">> ELSE <<None, None>>

\* r.headers.get("content-type"): the text  mime ";" param , or absent
Header(mime, param) == [present |-> TRUE, mime |-> mime, param |-> param]
NoHeader == [present |-> FALSE, mime |-> "", param |-> ""]
\* s.strip().lower()
StripLower(s) ==
    CASE s = " IMAGE/PNG" -> "image/png"
      [] OTHER -> s

\* ct.split(";")[0].strip().lower() or None, of a raw header
_normalize_content_type(ct) ==
    IF ~ct.present THEN NoCT
    ELSE LET m == StripLower(ct.mime) IN IF m = "" THEN NoCT ELSE m

EXT_BY_CONTENT_TYPE(ct) ==
    CASE ct = "image/jpeg" -> "jpg"
      [] ct = "image/jpg" -> "jpg"
      [] ct = "image/png" -> "png"
      [] ct = "image/webp" -> "webp"
      [] ct = "image/gif" -> "gif"
      [] OTHER -> None

\* (img.format or "").lower()
FormatLower(fmt) ==
    CASE fmt = "JPEG" -> "jpeg"
      [] fmt = "PNG" -> "png"
      [] fmt = "WEBP" -> "webp"
      [] fmt = "GIF" -> "gif"
      [] OTHER -> ""

\* content_type is the string _download_once normalized; _infer_ext
\* normalizes it once more
\* the fallback is missing: an undecodable payload gets no extension
_infer_ext_nofallback(content_type, data) ==
    LET ct == IF content_type = NoCT THEN NoCT ELSE StripLower(content_type)
        fmt == FormatLower(PilFormat(data))
    IN  IF EXT_BY_CONTENT_TYPE(ct) # None THEN EXT_BY_CONTENT_TYPE(ct)
        ELSE IF fmt = "jpeg" THEN "jpg"
        ELSE fmt

_infer_ext(content_type, data) ==
    LET ct == IF content_type = NoCT THEN NoCT ELSE StripLower(content_type)
        fmt == FormatLower(PilFormat(data))
    IN  IF EXT_BY_CONTENT_TYPE(ct) # None THEN EXT_BY_CONTENT_TYPE(ct)
        ELSE IF fmt = "jpeg" THEN "jpg"
        ELSE IF fmt \in {"png", "webp", "gif"} THEN fmt
        ELSE "bin"

_get_dimensions(data) == PilSize(data)

\* the extension is left out of the pathname
Pathname_noext(sha, ext) == "pets/" \o sha

\* pathname = f"pets/{sha}.{ext}"
Pathname(sha, ext) == "pets/" \o sha \o "." \o ext

\* the public URL the object store gives the object at a pathname
\* (add_random_suffix=False: it is a function of the pathname)
BlobUrl(pathname) == "https://store.public.blob.vercel-storage.com/" \o pathname

(***************************************************************************)
(* Backoff: base = min(2**attempt, 15); jitter = random.random() * 0.35.   *)
(* The wait is in milliseconds; jitterMs is the draw, 0 <= jitterMs < 350. *)
(***************************************************************************)
JitterDraws == {0, JitterMaxMs - 1}

\* the cap is forgotten
_sleep_backoff_uncapped(attempt, jitterMs) ==
    (2 ^ attempt) * 1000 + jitterMs

_sleep_backoff(attempt, jitterMs) ==
    Min(2 ^ attempt, BackoffCap) * 1000 + jitterMs

NoSleep == [phase |-> "none", attempt |-> 0, ms |-> 0]
Slept(phase, attempt, jitterMs) ==
    [phase |-> phase, attempt |-> attempt, ms |-> _sleep_backoff(attempt, jitterMs)]

(***************************************************************************)
(* The vendor's answers to one fetch.                                      *)
(***************************************************************************)
Http(status) == [kind |-> "http", status |-> status]
TransportFailure == [kind |-> "transport", status |-> 0]
NoResponse == [kind |-> "none", status |-> 0]

FailingResponses ==
    { Http(404), Http(403), Http(429), Http(503), TransportFailure }

\* _download_once: the exception it raises on a response, None on success
DownloadOnceError(resp) ==
    IF resp.kind = "transport" THEN "ConnectionError"
    ELSE IF resp.status = 404 THEN "404_not_found:"
    ELSE IF resp.status \in RETRYABLE_HTTP_STATUS
         THEN "retryable_http:" \o ToString(resp.status)
    ELSE IF resp.status >= 400 THEN "HTTPError:" \o ToString(resp.status)
    ELSE None

\* the prefix tested is not the one _download_once raises with
Is404_never(e) == e = "404:"

\* str(e).startswith("404_not_found:")
Is404(e) == e = "404_not_found:"

(***************************************************************************)
(* State.                                                                  *)
(*   vendor      what the vendor serves at each canonical URL              *)
(*   db          m2mr.media_assets: rows of source 'RG' by original_url    *)
(*   blob        the object store: objects by pathname                     *)
(*   sem         free slots of the drivers' asyncio.Semaphore              *)
(*   task        the photo handlers and the resolve call each one runs     *)
(*   fin, fout   the driver's input file and its output file, as lines     *)
(*   run         the driver script: its arguments, its place in the loop   *)
(*               over the records and the record it holds                  *)
(* History, read by the properties only:                                   *)
(*   lastDone    the most recently finished call of each canonical URL     *)
(*   downloads, uploads   successful fetches and puts per canonical URL    *)
(*   callsLeft, faultsLeft   what the bounds leave of a run                *)
(***************************************************************************)
VARIABLES vendor, db, blob, sem, concurrency, dlAttempts, task,
          lastDone, downloads, uploads, callsLeft, faultsLeft,
          fin, fout, run

vars == <<vendor, db, blob, sem, concurrency, dlAttempts, task,
          lastDone, downloads, uploads, callsLeft, faultsLeft,
          fin, fout, run>>

Tasks == 1 .. NumTasks

Content(data, ctype) == [data |-> data, ctype |-> ctype]
\* what the vendor serves at the two canonical URLs, in the runs studied:
\* the same image under two headers that give one extension, the same image
\* under headers that give two extensions, and two different payloads
FirstVendorConfig ==
    [c \in Canons |-> IF c.path = "/a.jpg"
                      THEN Content("jpegA", Header("image/jpeg", ""))
                      ELSE Content("jpegA", NoHeader)]

VendorConfigs ==
    { FirstVendorConfig,
      [c \in Canons |-> IF c.path = "/a.jpg"
                        THEN Content("jpegA", Header("image/jpeg", ""))
                        ELSE Content("jpegA", Header(" IMAGE/PNG", "charset=utf-8"))],
      [c \in Canons |-> IF c.path = "/a.jpg"
                        THEN Content("junkB", Header("text/html", ""))
                        ELSE Content("jpegA", NoHeader)] }

\* what the vendor has at a URL whose image it removed: every GET is a 404
Gone == Content(None, NoHeader)
IsGone(c) == vendor[c] = Gone

NoUrl == [scheme |-> "", netloc |-> "", path |-> "",
          params |-> "", query |-> "", fragment |-> ""]

NoCall ==
    [exists |-> FALSE, ok |-> FALSE, url |-> NoUrl, result |-> None,
     hit |-> FALSE, stored |-> FALSE, fetched |-> 0,
     data |-> None, ext |-> None, pathname |-> None, alone |-> FALSE]

IdleTask ==
    [pc |-> "idle", url |-> NoUrl, original_url |-> NoUrl, animal |-> None,
     attempt |-> 0, mapped |-> None,
     data |-> None, content_type |-> NoCT, sha |-> None, ext |-> None,
     width |-> None, height |-> None, pathname |-> None, public_url |-> None,
     result |-> None, err |-> None,
     lookups |-> 0, hit |-> FALSE, lookupGaveUp |-> FALSE,
     fetches |-> 0, fetched |-> 0, lastResp |-> NoResponse, dlSleeps |-> 0,
     puts |-> 0, heads |-> 0, upserts |-> 0, upsertOk |-> FALSE,
     lastSleep |-> NoSleep, pred |-> NoCall, alone |-> TRUE]

(***************************************************************************)
(* The JSONL files of the drivers.  A photo reference holds its url (the   *)
(* text and what urlparse makes of it), its rehostError (None when the     *)
(* key is absent) and whether it is marked missing.                        *)
(***************************************************************************)
BlobHost == "store.public.blob.vercel-storage.com"

RgRef(u) == [text |-> urlunparse(u), parsed |-> u]
EmptyRef == [text |-> "", parsed |-> NoUrl]
\* a public URL of the object store: https://<BlobHost>/<pathname>
BlobRef(s) ==
    [text |-> s,
     parsed |-> [scheme |-> "https", netloc |-> BlobHost,
                 path |-> SubSeq(s, Len("https://" \o BlobHost) + 1, Len(s)),
                 params |-> "", query |-> "", fragment |-> ""]]

Photo(ref, err) == [url |-> ref, rehostError |-> err, missing |-> FALSE]
Record(animal, photos) == [sourceAnimalId |-> animal, photos |-> photos]

\* a line of the output file: the record it was written from, whether the
\* text of that record is whole (a line cut by an interruption is not), and
\* how many records were written onto the same line behind a cut text
Line(rec) == [rec |-> rec, whole |-> TRUE, glued |-> 0]

\* the file ends in a line without its newline
Unterminated(file) ==
    file # <<>> /\ ~file[Len(file)].whole /\ file[Len(file)].glued = 0

StartsWith(s, prefix) ==
    Len(s) >= Len(prefix) /\ SubSeq(s, 1, Len(prefix)) = prefix
EndsWith(s, suffix) ==
    Len(s) >= Len(suffix) /\ SubSeq(s, Len(s) - Len(suffix) + 1, Len(s)) = suffix
\* sub in s
Contains(s, sub) ==
    \E i \in 1 .. (Len(s) - Len(sub) + 1) : SubSeq(s, i, i + Len(sub) - 1) = sub

\* bool(url) and ("blob.vercel-storage.com" in url)
is_already_rehosted(ref) ==
    ref.text # "" /\ Contains(ref.text, "blob.vercel-storage.com")
is_blob_url(ref) ==
    ref.text # "" /\ Contains(ref.text, "blob.vercel-storage.com")
\* the hosts of the model are in lower case already
is_rescuegroups_url(ref) == EndsWith(ref.parsed.netloc, "rescuegroups.org")

\* the lines of the output file are not counted: nothing is skipped
count_lines_none(file) == 0

\* n = 0; for _ in f: n += 1 -- a last line without its newline counts
count_lines(file) == Len(file)

NoRun ==
    [script |-> "none", pc |-> "off", runs |-> 0, resume |-> FALSE,
     limit |-> 0, skip |-> 0, pos |-> 0, processed |-> 0,
     changed |-> 0, failed |-> 0, marked_missing |-> 0,
     photos |-> <<>>, state |-> <<>>, ended |-> <<>>, kept |-> <<>>,
     gone0 |-> {}, env |-> [DATABASE_URL |-> TRUE, BLOB_READ_WRITE_TOKEN |-> TRUE],
     same |-> FALSE]

InFlight(t) == task[t].pc \in {"lookup", "download", "put", "head", "upsert"}
Ended(t) == task[t].pc \in {"returned", "raised"}

\* sem = asyncio.Semaphore(max(1, args.concurrency))
SemSize(n) == Max(1, n)

\* the stores and the tasks before anything has run; the arguments are
\* the knobs and the bounds
Stores(configs, concurrencies, attemptsArgs, calls, faultBudget) ==
    /\ vendor \in configs
    /\ db = <<>>
    /\ blob = <<>>
    /\ concurrency \in concurrencies
    /\ sem = SemSize(concurrency)
    /\ dlAttempts \in attemptsArgs
    /\ task = [t \in Tasks |-> IdleTask]
    /\ lastDone = [c \in Canons |-> NoCall]
    /\ downloads = [c \in Canons |-> 0]
    /\ uploads = [c \in Canons |-> 0]
    /\ callsLeft = calls
    /\ faultsLeft = faultBudget

\* resolve calls studied by themselves: no driver script, no files
Start(configs, concurrencies, attemptsArgs, calls, faultBudget) ==
    /\ Stores(configs, concurrencies, attemptsArgs, calls, faultBudget)
    /\ fin = <<>>
    /\ fout = <<>>
    /\ run = NoRun

\* a run of a driver: _download_with_retries is called with its default
Init ==
    Start(VendorConfigs, 0 .. MaxConcurrency, {DownloadAttempts}, MaxCalls, MaxFaults)

\* calls of one run side by side, as many as there are slots
InitPair ==
    Start({FirstVendorConfig}, {MaxConcurrency}, {DownloadAttempts}, MaxCalls, PairFaults)

\* a call that may meet every failure its loops allow for
InitOne ==
    Start({FirstVendorConfig}, {1}, {DownloadAttempts}, OneCalls, OneFaults)

\* a run with --concurrency 1: the references are resolved one after another
InitSeq ==
    Start(VendorConfigs, {1}, {DownloadAttempts}, SeqCalls, SeqFaults)

\* the download loop under its default `attempts` and under a larger one,
\* which lets the wait reach the cap
InitBackoff ==
    Start({FirstVendorConfig}, {1}, {DownloadAttempts, MaxAttemptsArg},
          SeqCalls, SeqFaults)

(***************************************************************************)
(* How a call ends: the handler leaves `async with sem` and the call is    *)
(* remembered as the last one of its canonical URL.                        *)
(***************************************************************************)
Summary(r) ==
    [exists |-> TRUE, ok |-> r.pc = "returned", url |-> r.url, result |-> r.result,
     hit |-> r.hit, stored |-> r.hit \/ r.upsertOk, fetched |-> r.fetched,
     data |-> r.data, ext |-> r.ext, pathname |-> r.pathname, alone |-> r.alone]

\* the record of an ended call is kept for the one state that follows its end
Forget(tasks) ==
    [s \in Tasks |-> IF task[s].pc \in {"returned", "raised"} /\ tasks[s] = task[s]
                     THEN IdleTask ELSE tasks[s]]

\* str(e) of the exception a call raised: the 404 of _download_once quotes
\* the URL, the other texts stand for what the libraries say
ErrText(r) ==
    IF r.err = "404_not_found:"
    THEN r.err \o urlunparse(r.original_url)
    ELSE r.err

\* s[:n]
Slice(s, n) == SubSeq(s, 1, Min(Len(s), n))

\* a failure is taken for a removed image: the url is blanked
rehost_handle_photo_gone(photo, r) ==
    IF r.pc = "returned"
    THEN [photo EXCEPT !.url = BlobRef(r.result)]
    ELSE [photo EXCEPT !.url = EmptyRef, !.missing = TRUE]

\* the text of the exception is stored as it is
rehost_handle_photo_whole(photo, r) ==
    IF r.pc = "returned"
    THEN [photo EXCEPT !.url = BlobRef(r.result)]
    ELSE [photo EXCEPT !.rehostError = ErrText(r)]

\* rehost_animals_photos_jsonl.py, handle_photo after the call
rehost_handle_photo(photo, r) ==
    IF r.pc = "returned"
    THEN [photo EXCEPT !.url = BlobRef(r.result)]
    ELSE [photo EXCEPT !.rehostError = Slice(ErrText(r), ErrLimit)]

\* every failure is taken for the 404 of a removed image
repair_handle_photo_allgone(photo, r) ==
    IF r.pc = "returned"
    THEN [photo EXCEPT !.url = BlobRef(r.result), !.rehostError = None]
    ELSE [photo EXCEPT !.url = EmptyRef, !.missing = TRUE, !.rehostError = None]

\* the 404 of a removed image is handled as any other failure
repair_handle_photo_keeps(photo, r) ==
    IF r.pc = "returned"
    THEN [photo EXCEPT !.url = BlobRef(r.result), !.rehostError = None]
    ELSE [photo EXCEPT !.rehostError = Slice(ErrText(r), ErrLimit)]

\* a photo of a removed image is marked missing but keeps its vendor URL
repair_handle_photo_keepsurl(photo, r) ==
    IF r.pc = "returned"
    THEN [photo EXCEPT !.url = BlobRef(r.result), !.rehostError = None]
    ELSE IF StartsWith(ErrText(r), "404_not_found:")
    THEN [photo EXCEPT !.missing = TRUE, !.rehostError = None]
    ELSE [photo EXCEPT !.rehostError = Slice(ErrText(r), ErrLimit)]

\* repair_rehosted_jsonl.py, handle_photo after the call
repair_handle_photo(photo, r) ==
    IF r.pc = "returned"
    THEN [photo EXCEPT !.url = BlobRef(r.result), !.rehostError = None]
    ELSE IF StartsWith(ErrText(r), "404_not_found:")
    THEN [photo EXCEPT !.url = EmptyRef, !.missing = TRUE, !.rehostError = None]
    ELSE [photo EXCEPT !.rehostError = Slice(ErrText(r), ErrLimit)]

\* what the handler of photo t does with the outcome r of its call, in the
\* same step as the call's end (nothing is awaited in between)
Settle(t, r) ==
    IF run.script = "none" THEN run
    ELSE LET ok == r.pc = "returned"
             gone == ~ok /\ run.script = "repair"
                         /\ StartsWith(ErrText(r), "404_not_found:")
         IN  [run EXCEPT
                !.photos[t] = IF run.script = "rehost"
                              THEN rehost_handle_photo(@, r)
                              ELSE repair_handle_photo(@, r),
                !.state[t] = "done",
                !.ended = Append(@, t),
                !.changed = IF ok \/ gone THEN @ + 1 ELSE @,
                !.marked_missing = IF gone THEN @ + 1 ELSE @,
                !.failed = IF ok \/ gone THEN @ ELSE @ + 1]

\* the slot is given back only when the call returned
Finish_leaks(t, r) ==
    /\ task' = Forget([task EXCEPT ![t] = [r EXCEPT !.lastSleep = NoSleep]])
    /\ lastDone' = [lastDone EXCEPT ![r.original_url] = Summary(r)]
    /\ sem' = IF r.pc = "raised" THEN sem ELSE sem + 1
    /\ run' = Settle(t, r)
    /\ UNCHANGED <<fin, fout>>

Finish(t, r) ==
    /\ task' = Forget([task EXCEPT ![t] = [r EXCEPT !.lastSleep = NoSleep]])
    /\ lastDone' = [lastDone EXCEPT ![r.original_url] = Summary(r)]
    /\ sem' = sem + 1
    /\ run' = Settle(t, r)
    /\ UNCHANGED <<fin, fout>>

Step(t, r) ==
    /\ task' = Forget([task EXCEPT ![t] = [r EXCEPT !.lastSleep = NoSleep]])
    /\ UNCHANGED <<lastDone, sem, fin, fout, run>>

\* a step that ends in `await _sleep_backoff(attempt)`
Sleep(t, r, phase) ==
    \E j \in JitterDraws :
        /\ task' = Forget([task EXCEPT ![t] =
                              [r EXCEPT !.attempt = @ + 1,
                                        !.lastSleep = Slept(phase, task[t].attempt, j)]])
        /\ UNCHANGED <<lastDone, sem, fin, fout, run>>

(***************************************************************************)
(* handle_photo: a reference that passes the filters takes a slot and      *)
(* calls cache_rg_image_to_blob, which canonicalizes the URL again.        *)
(***************************************************************************)
StartResolve(t, u, a) ==
    /\ ~InFlight(t)
    /\ \A s \in Tasks : s < t => InFlight(s)
    /\ callsLeft > 0
    /\ sem > 0
    /\ \A s \in Tasks : InFlight(s) => task[s].animal = a
    /\ LET c == _canonicalize_url(canonicalize_url(u))
           others == { s \in Tasks \ {t} : InFlight(s) /\ task[s].original_url = c }
       IN  task' = Forget([s \in Tasks |->
                       IF s = t
                       THEN [IdleTask EXCEPT !.pc = "lookup", !.url = u,
                                             !.original_url = c, !.animal = a,
                                             !.pred = lastDone[c],
                                             !.alone = (others = {})]
                       ELSE IF s \in others THEN [task[s] EXCEPT !.alone = FALSE]
                       ELSE task[s]])
    /\ sem' = sem - 1
    /\ callsLeft' = callsLeft - 1
    /\ UNCHANGED <<vendor, db, blob, concurrency, dlAttempts, lastDone,
                   downloads, uploads, faultsLeft, fin, fout, run>>

(***************************************************************************)
(* 1) DB cache: up to three lookups; a failure of all three is a miss.     *)
(***************************************************************************)
\* the select reads the wrong column of the row
_db_get_public_url_sha(original_url) ==
    IF original_url \in DOMAIN db /\ db[original_url].public_url # ""
    THEN db[original_url].sha256
    ELSE None

\* the select returns row[0] of any row, empty or not
_db_get_public_url_any(original_url) ==
    IF original_url \in DOMAIN db THEN db[original_url].public_url ELSE None

\* row[0] if row and row[0] else None
_db_get_public_url(original_url) ==
    IF original_url \in DOMAIN db /\ db[original_url].public_url \notin {"", None}
    THEN db[original_url].public_url
    ELSE None

\* a hit that falls through to the download instead of returning
LookupHit_fallthrough(t) ==
    /\ task[t].pc = "lookup"
    /\ _db_get_public_url(task[t].original_url) # None
    /\ Step(t, [task[t] EXCEPT !.pc = "download", !.attempt = 0,
                               !.lookups = @ + 1, !.hit = TRUE,
                               !.mapped = _db_get_public_url(task[t].original_url)])
    /\ UNCHANGED <<vendor, db, blob, concurrency, dlAttempts,
                   downloads, uploads, callsLeft, faultsLeft>>

\* a hit that writes the caller into the row it found
LookupHit_touch(t) ==
    /\ task[t].pc = "lookup"
    /\ _db_get_public_url(task[t].original_url) # None
    /\ db' = [db EXCEPT ![task[t].original_url].source_entity_id = task[t].animal]
    /\ LET mapped == _db_get_public_url(task[t].original_url)
       IN  Finish(t, [task[t] EXCEPT !.pc = "returned", !.lookups = @ + 1,
                                     !.hit = TRUE, !.mapped = mapped,
                                     !.result = mapped])
    /\ UNCHANGED <<vendor, blob, concurrency, dlAttempts,
                   downloads, uploads, callsLeft, faultsLeft>>

LookupHit(t) ==
    /\ task[t].pc = "lookup"
    /\ _db_get_public_url(task[t].original_url) # None
    /\ LET mapped == _db_get_public_url(task[t].original_url)
       IN  Finish(t, [task[t] EXCEPT !.pc = "returned", !.lookups = @ + 1,
                                     !.hit = TRUE, !.mapped = mapped,
                                     !.result = mapped])
    /\ UNCHANGED <<vendor, db, blob, concurrency, dlAttempts,
                   downloads, uploads, callsLeft, faultsLeft>>

LookupMiss(t) ==
    /\ task[t].pc = "lookup"
    /\ _db_get_public_url(task[t].original_url) = None
    /\ Step(t, [task[t] EXCEPT !.pc = "download", !.attempt = 0,
                               !.lookups = @ + 1])
    /\ UNCHANGED <<vendor, db, blob, concurrency, dlAttempts,
                   downloads, uploads, callsLeft, faultsLeft>>

\* the third failed lookup is raised instead of being taken for a miss
LookupFail_raises(t) ==
    /\ task[t].pc = "lookup"
    /\ faultsLeft > 0
    /\ faultsLeft' = faultsLeft - 1
    /\ IF task[t].attempt = DbAttempts - 1
       THEN Finish(t, [task[t] EXCEPT !.pc = "raised", !.err = "OperationalError",
                                      !.lookups = @ + 1, !.lookupGaveUp = TRUE])
       ELSE Sleep(t, [task[t] EXCEPT !.lookups = @ + 1], "lookup")
    /\ UNCHANGED <<vendor, db, blob, concurrency, dlAttempts,
                   downloads, uploads, callsLeft>>

\* the lookup is tried again after every failure
LookupFail_nolimit(t) ==
    /\ task[t].pc = "lookup"
    /\ faultsLeft > 0
    /\ faultsLeft' = faultsLeft - 1
    /\ Sleep(t, [task[t] EXCEPT !.lookups = @ + 1], "lookup")
    /\ UNCHANGED <<vendor, db, blob, concurrency, dlAttempts,
                   downloads, uploads, callsLeft>>

LookupFail(t) ==
    /\ task[t].pc = "lookup"
    /\ faultsLeft > 0
    /\ faultsLeft' = faultsLeft - 1
    /\ IF task[t].attempt = DbAttempts - 1
       THEN Step(t, [task[t] EXCEPT !.pc = "download", !.attempt = 0,
                                    !.lookups = @ + 1, !.lookupGaveUp = TRUE])
       ELSE Sleep(t, [task[t] EXCEPT !.lookups = @ + 1], "lookup")
    /\ UNCHANGED <<vendor, db, blob, concurrency, dlAttempts,
                   downloads, uploads, callsLeft>>

(***************************************************************************)
(* 2) Download with retries, then hash, extension, dimensions, pathname.   *)
(***************************************************************************)
DownloadOk(t) ==
    /\ task[t].pc = "download"
    /\ ~IsGone(task[t].original_url)
    /\ LET c == task[t].original_url
           data == vendor[c].data
           content_type == _normalize_content_type(vendor[c].ctype)
           sha == Sha256(data)
           ext == _infer_ext(content_type, data)
           dims == _get_dimensions(data)
       IN  /\ Step(t, [task[t] EXCEPT !.pc = "put", !.attempt = 0,
                                      !.fetches = @ + 1, !.fetched = @ + 1,
                                      !.lastResp = Http(200),
                                      !.data = data, !.content_type = content_type,
                                      !.sha = sha, !.ext = ext,
                                      !.width = dims[1], !.height = dims[2],
                                      !.pathname = Pathname(sha, ext)])
           /\ downloads' = [downloads EXCEPT ![c] = @ + 1]
    /\ UNCHANGED <<vendor, db, blob, concurrency, dlAttempts,
                   uploads, callsLeft, faultsLeft>>

\* the last attempt is taken to be number `attempts`, one too far
DownloadFail_onemore(t, resp) ==
    /\ task[t].pc = "download"
    /\ IF IsGone(task[t].original_url)
       THEN resp = Http(404) /\ faultsLeft' = faultsLeft
       ELSE faultsLeft > 0 /\ faultsLeft' = faultsLeft - 1
    /\ LET e == DownloadOnceError(resp)
           r == [task[t] EXCEPT !.fetches = @ + 1, !.lastResp = resp]
       IN  IF Is404(e) \/ task[t].attempt = dlAttempts
           THEN Finish(t, [r EXCEPT !.pc = "raised", !.err = e])
           ELSE Sleep(t, [r EXCEPT !.dlSleeps = @ + 1], "download")
    /\ UNCHANGED <<vendor, db, blob, concurrency, dlAttempts,
                   downloads, uploads, callsLeft>>

DownloadFail(t, resp) ==
    /\ task[t].pc = "download"
    /\ IF IsGone(task[t].original_url)
       THEN resp = Http(404) /\ faultsLeft' = faultsLeft
       ELSE faultsLeft > 0 /\ faultsLeft' = faultsLeft - 1
    /\ LET e == DownloadOnceError(resp)
           r == [task[t] EXCEPT !.fetches = @ + 1, !.lastResp = resp]
       IN  IF Is404(e) \/ task[t].attempt = dlAttempts - 1
           THEN Finish(t, [r EXCEPT !.pc = "raised", !.err = e])
           ELSE Sleep(t, [r EXCEPT !.dlSleeps = @ + 1], "download")
    /\ UNCHANGED <<vendor, db, blob, concurrency, dlAttempts,
                   downloads, uploads, callsLeft>>

(***************************************************************************)
(* 3) Upload to the object store with retries; "already exists" is         *)
(*    reconciled through head().                                           *)
(***************************************************************************)
Object(t) ==
    [data |-> task[t].data,
     content_type |-> IF task[t].content_type = NoCT
                      THEN "application/octet-stream" ELSE task[t].content_type]

\* the put leaves add_random_suffix on: the object gets a name of its own
PutOk_suffixed(t) ==
    LET name == task[t].pathname \o "-" \o task[t].original_url.path
    IN  /\ task[t].pc = "put"
        /\ blob' = (name :> Object(t)) @@ blob
        /\ uploads' = [uploads EXCEPT ![task[t].original_url] = @ + 1]
        /\ Step(t, [task[t] EXCEPT !.pc = "upsert", !.attempt = 0, !.puts = @ + 1,
                                   !.public_url = BlobUrl(name)])
        /\ UNCHANGED <<vendor, db, concurrency, dlAttempts,
                       downloads, callsLeft, faultsLeft>>

PutOk(t) ==
    /\ task[t].pc = "put"
    /\ blob' = (task[t].pathname :> Object(t)) @@ blob
    /\ uploads' = [uploads EXCEPT ![task[t].original_url] = @ + 1]
    /\ Step(t, [task[t] EXCEPT !.pc = "upsert", !.attempt = 0, !.puts = @ + 1,
                               !.public_url = BlobUrl(task[t].pathname)])
    /\ UNCHANGED <<vendor, db, concurrency, dlAttempts,
                   downloads, callsLeft, faultsLeft>>

\* the last attempt is taken to be number `attempts`, one too far
PutRetry_onemore(t, r, e) ==
    IF task[t].attempt = PutAttempts
    THEN Finish(t, [r EXCEPT !.pc = "raised", !.err = e])
    ELSE Sleep(t, [r EXCEPT !.pc = "put"], "put")

\* the last failure is not raised: the call goes on to the upsert with no URL
PutRetry_goeson(t, r, e) ==
    IF task[t].attempt = PutAttempts - 1
    THEN Step(t, [r EXCEPT !.pc = "upsert", !.attempt = 0, !.public_url = ""])
    ELSE Sleep(t, [r EXCEPT !.pc = "put"], "put")

\* the rest of the except block: give up on the last attempt, else back off
PutRetry(t, r, e) ==
    IF task[t].attempt = PutAttempts - 1
    THEN Finish(t, [r EXCEPT !.pc = "raised", !.err = e])
    ELSE Sleep(t, [r EXCEPT !.pc = "put"], "put")

PutFail(t) ==
    /\ task[t].pc = "put"
    /\ faultsLeft > 0
    /\ faultsLeft' = faultsLeft - 1
    /\ PutRetry(t, [task[t] EXCEPT !.puts = @ + 1], "blob_put_failed")
    /\ UNCHANGED <<vendor, db, blob, concurrency, dlAttempts,
                   downloads, uploads, callsLeft>>

\* the put is refused because an object is at the pathname
PutExists(t) ==
    /\ task[t].pc = "put"
    /\ task[t].pathname \in DOMAIN blob
    /\ faultsLeft > 0
    /\ faultsLeft' = faultsLeft - 1
    /\ Step(t, [task[t] EXCEPT !.pc = "head", !.puts = @ + 1])
    /\ UNCHANGED <<vendor, db, blob, concurrency, dlAttempts,
                   downloads, uploads, callsLeft>>

\* the URL that head() returns is dropped and the put is tried again
HeadOk_dropped(t) ==
    /\ task[t].pc = "head"
    /\ task[t].pathname \in DOMAIN blob
    /\ PutRetry(t, [task[t] EXCEPT !.heads = @ + 1], "already exists")
    /\ UNCHANGED <<vendor, db, blob, concurrency, dlAttempts,
                   downloads, uploads, callsLeft, faultsLeft>>

HeadOk(t) ==
    /\ task[t].pc = "head"
    /\ task[t].pathname \in DOMAIN blob
    /\ Step(t, [task[t] EXCEPT !.pc = "upsert", !.attempt = 0, !.heads = @ + 1,
                               !.public_url = BlobUrl(task[t].pathname)])
    /\ UNCHANGED <<vendor, db, blob, concurrency, dlAttempts,
                   downloads, uploads, callsLeft, faultsLeft>>

HeadFail(t) ==
    /\ task[t].pc = "head"
    /\ faultsLeft > 0
    /\ faultsLeft' = faultsLeft - 1
    /\ PutRetry(t, [task[t] EXCEPT !.heads = @ + 1], "already exists")
    /\ UNCHANGED <<vendor, db, blob, concurrency, dlAttempts,
                   downloads, uploads, callsLeft>>

(***************************************************************************)
(* 4) Upsert the mapping: up to three tries, failure swallowed.            *)
(***************************************************************************)
Row(t) ==
    [source_entity |-> "animal",
     source_entity_id |-> task[t].animal, source_media_id |-> None,
     public_url |-> task[t].public_url, sha256 |-> task[t].sha,
     content_type |-> task[t].content_type, bytes |-> SizeBytes(task[t].data),
     width |-> task[t].width, height |-> task[t].height,
     file_ext |-> task[t].ext]

\* the statement runs but the transaction is never committed
_db_upsert_mapping_uncommitted(t) == db

\* insert ... on conflict (source, original_url) do nothing
_db_upsert_mapping_donothing(t) ==
    LET c == task[t].original_url
    IN  IF c \in DOMAIN db THEN db ELSE (c :> Row(t)) @@ db

\* ... do update set source_entity_id = excluded.source_entity_id, ...
_db_upsert_mapping_relinks(t) == (task[t].original_url :> Row(t)) @@ db

\* insert ... on conflict (source, original_url) do update set ...
_db_upsert_mapping(t) ==
    LET c == task[t].original_url
        new == Row(t)
    IN  IF c \in DOMAIN db
        THEN [db EXCEPT ![c] = [new EXCEPT !.source_entity = db[c].source_entity,
                                           !.source_entity_id = db[c].source_entity_id,
                                           !.source_media_id = db[c].source_media_id]]
        ELSE (c :> new) @@ db

\* a plain insert whose unique violation reaches the caller
UpsertOk_insert(t) ==
    /\ task[t].pc = "upsert"
    /\ IF task[t].original_url \in DOMAIN db
       THEN /\ db' = db
            /\ Finish(t, [task[t] EXCEPT !.pc = "raised", !.err = "UniqueViolation",
                                          !.upserts = @ + 1])
       ELSE /\ db' = _db_upsert_mapping(t)
            /\ Finish(t, [task[t] EXCEPT !.pc = "returned", !.upserts = @ + 1,
                                          !.upsertOk = TRUE,
                                          !.result = task[t].public_url])
    /\ UNCHANGED <<vendor, blob, concurrency, dlAttempts,
                   downloads, uploads, callsLeft, faultsLeft>>

UpsertOk(t) ==
    /\ task[t].pc = "upsert"
    /\ db' = _db_upsert_mapping(t)
    /\ Finish(t, [task[t] EXCEPT !.pc = "returned", !.upserts = @ + 1,
                                 !.upsertOk = TRUE,
                                 !.result = task[t].public_url])
    /\ UNCHANGED <<vendor, blob, concurrency, dlAttempts,
                   downloads, uploads, callsLeft, faultsLeft>>

\* the third failed upsert is raised instead of being swallowed
UpsertFail_raises(t) ==
    /\ task[t].pc = "upsert"
    /\ faultsLeft > 0
    /\ faultsLeft' = faultsLeft - 1
    /\ IF task[t].attempt = DbAttempts - 1
       THEN Finish(t, [task[t] EXCEPT !.pc = "raised", !.err = "OperationalError",
                                      !.upserts = @ + 1])
       ELSE Sleep(t, [task[t] EXCEPT !.upserts = @ + 1], "upsert")
    /\ UNCHANGED <<vendor, db, blob, concurrency, dlAttempts,
                   downloads, uploads, callsLeft>>

UpsertFail(t) ==
    /\ task[t].pc = "upsert"
    /\ faultsLeft > 0
    /\ faultsLeft' = faultsLeft - 1
    /\ IF task[t].attempt = DbAttempts - 1
       THEN Finish(t, [task[t] EXCEPT !.pc = "returned", !.upserts = @ + 1,
                                      !.result = task[t].public_url])
       ELSE Sleep(t, [task[t] EXCEPT !.upserts = @ + 1], "upsert")
    /\ UNCHANGED <<vendor, db, blob, concurrency, dlAttempts,
                   downloads, uploads, callsLeft>>


(***************************************************************************)
(* The driver scripts: rehost_animals_photos_jsonl.py (script "rehost")    *)
(* and repair_rehosted_jsonl.py (script "repair").  main() reads the input *)
(* a line at a time, gathers the handlers of the record's photos and       *)
(* writes the record; the run may be interrupted at any time.              *)
(***************************************************************************)
PriorBlobUrl == BlobUrl(Pathname(Sha256("jpegA"), "jpg"))

\* the input of the rehost script: vendor URLs, one already rehosted
RehostInput ==
    << Record("42", << Photo(RgRef(Url("/a.jpg", "width=100", "top")), None),
                       Photo(RgRef(Url(LongPath, "", "")), None) >>),
       Record("77", << Photo(RgRef(Url("/a.jpg", "", "")), None),
                       Photo(BlobRef(PriorBlobUrl), None) >>) >>

\* the input of the repair script: references an earlier pass failed on
RepairInput ==
    << Record("42", << Photo(RgRef(Url("/a.jpg", "", "")), "retryable_http:503"),
                       Photo(BlobRef(PriorBlobUrl), None) >>),
       Record("77", << Photo(RgRef(Url("/a.jpg", "width=100", "top")),
                             "retryable_http:503"),
                       Photo(RgRef(Url(LongPath, "", "")), None) >>) >>

\* before main(): the stores, the input file of the script, no output yet
Driver(scripts, concurrencies, faultBudget) ==
    /\ Stores({FirstVendorConfig}, concurrencies, {DownloadAttempts},
              0, faultBudget)
    /\ \E script \in scripts :
          /\ fin = (IF script = "rehost" THEN RehostInput ELSE RepairInput)
          /\ run = [NoRun EXCEPT !.script = script]
    /\ fout = <<>>

InitRun == Driver({"rehost", "repair"}, {0, MaxConcurrency}, RunFaults)
InitRepair == Driver({"repair"}, {0, MaxConcurrency}, RunFaults)
\* the repair script with --concurrency 1
InitTwice == Driver({"repair"}, {1}, RunFaults)
\* whole runs without --limit, with --concurrency 1 and more
InitDrain == Driver({"rehost", "repair"}, {1, MaxConcurrency}, RunFaults)
\* a pass with --concurrency 1 and faults enough to wear out the retries
InitPass == Driver({"rehost", "repair"}, {1}, PassFaults)
\* the batch script run with --concurrency 1 over a file that an earlier
\* pass left, with references that carry a rehostError
InitAgain ==
    /\ Stores({FirstVendorConfig}, {1}, {DownloadAttempts}, 0, RunFaults)
    /\ fin = RepairInput
    /\ fout = <<>>
    /\ run = [NoRun EXCEPT !.script = "rehost"]

\* the filters a handler applies before it takes a slot of the semaphore
Selected(script, photo) ==
    IF script = "rehost"
    THEN /\ photo.url.text # ""
         /\ ~is_already_rehosted(photo.url)
         /\ is_rescuegroups_url(photo.url)
    ELSE /\ ~(/\ photo.url.text # "" /\ is_blob_url(photo.url)
              /\ photo.rehostError = None)
         /\ (is_rescuegroups_url(photo.url) \/ photo.rehostError # None)

\* main() up to the loop: the semaphore, resume's line count, the files
\* the script goes on without looking at the environment
Launch_unchecked(resume, limit) ==
    /\ run.script # "none"
    /\ run.pc \in {"off", "done", "interrupted"}
    /\ run.runs < MaxRuns
    /\ run.script = "repair" => ~resume
    /\ LET skip == IF resume THEN count_lines(fout) ELSE 0
           file == IF resume THEN fout ELSE <<>>
       IN  /\ fout' = file
           /\ run' = [NoRun EXCEPT !.script = run.script, !.pc = "loop",
                                   !.runs = run.runs + 1, !.resume = resume,
                                   !.limit = limit, !.skip = skip,
                                   !.pos = Min(skip, Len(fin)), !.kept = file,
                                   !.gone0 = { c \in Canons : IsGone(c) },
                                   !.env = run.env, !.same = run.same]
    /\ sem' = SemSize(concurrency)
    /\ task' = [t \in Tasks |-> IdleTask]
    /\ lastDone' = [c \in Canons |-> NoCall]
    /\ downloads' = [c \in Canons |-> 0]
    /\ uploads' = [c \in Canons |-> 0]
    /\ fin' = IF run.same /\ ~resume THEN <<>> ELSE fin
    /\ UNCHANGED <<vendor, db, blob, concurrency, dlAttempts, callsLeft,
                   faultsLeft>>

\* os.getenv("DATABASE_URL") and os.getenv("BLOB_READ_WRITE_TOKEN") are both
\* set (and not empty): main() goes past its two checks
Configured == run.env.DATABASE_URL /\ run.env.BLOB_READ_WRITE_TOKEN

\* raise SystemExit("... not set"): the script ends at its checks
SystemExit ==
    /\ run.script # "none"
    /\ run.pc \in {"off", "exit"}
    /\ run.runs < MaxRuns
    /\ ~Configured
    /\ run' = [run EXCEPT !.pc = "exit", !.runs = @ + 1]
    /\ UNCHANGED <<vendor, db, blob, sem, concurrency, dlAttempts, task,
                   lastDone, downloads, uploads, callsLeft, faultsLeft, fin, fout>>

Launch(resume, limit) ==
    /\ run.script # "none"
    /\ run.pc \in {"off", "done", "interrupted"}
    /\ run.runs < MaxRuns
    /\ Configured
    /\ run.script = "repair" => ~resume
    /\ LET skip == IF resume THEN count_lines(fout) ELSE 0
           file == IF resume THEN fout ELSE <<>>
       IN  /\ fout' = file
           /\ run' = [NoRun EXCEPT !.script = run.script, !.pc = "loop",
                                   !.runs = run.runs + 1, !.resume = resume,
                                   !.limit = limit, !.skip = skip,
                                   !.pos = Min(skip, Len(fin)), !.kept = file,
                                   !.gone0 = { c \in Canons : IsGone(c) },
                                   !.env = run.env, !.same = run.same]
    /\ sem' = SemSize(concurrency)
    /\ task' = [t \in Tasks |-> IdleTask]
    /\ lastDone' = [c \in Canons |-> NoCall]
    /\ downloads' = [c \in Canons |-> 0]
    /\ uploads' = [c \in Canons |-> 0]
    /\ fin' = IF run.same /\ ~resume THEN <<>> ELSE fin
    /\ UNCHANGED <<vendor, db, blob, concurrency, dlAttempts, callsLeft,
                   faultsLeft>>

\* --limit counts the lines a resumed run found in the output too
AtEnd_total ==
    \/ run.pos >= Len(fin)
    \/ run.limit > 0 /\ run.skip + run.processed >= run.limit

AtEnd ==
    \/ run.pos >= Len(fin)
    \/ run.limit > 0 /\ run.processed >= run.limit

\* for line in fin: ... json.loads(line) ... gather(handle_photo(p) ...)
ReadRecord ==
    /\ run.pc = "loop"
    /\ ~AtEnd
    /\ LET photos == fin[run.pos + 1].photos
       IN  run' = [run EXCEPT
                     !.pc = "gather", !.photos = photos, !.ended = <<>>,
                     !.state = [i \in DOMAIN photos |->
                                  IF Selected(run.script, photos[i])
                                  THEN "pending" ELSE "skipped"]]
    /\ task' = Forget(task)
    /\ UNCHANGED <<vendor, db, blob, sem, concurrency, dlAttempts, lastDone,
                   downloads, uploads, callsLeft, faultsLeft, fin, fout>>

\* the handler calls cache_rg_image_to_blob without waiting for a slot
handle_photo_unbounded(t) ==
    /\ run.pc = "gather"
    /\ t \in DOMAIN run.photos
    /\ run.state[t] = "pending"
    /\ LET u == run.photos[t].url.parsed
           c == IF run.script = "rehost"
                THEN _canonicalize_url(canonicalize_url(u))
                ELSE _canonicalize_url(u)
           others == { s \in Tasks \ {t} : InFlight(s) /\ task[s].original_url = c }
       IN  task' = Forget([s \in Tasks |->
                       IF s = t
                       THEN [IdleTask EXCEPT
                               !.pc = "lookup", !.url = u, !.original_url = c,
                               !.animal = fin[run.pos + 1].sourceAnimalId,
                               !.pred = lastDone[c], !.alone = (others = {})]
                       ELSE IF s \in others THEN [task[s] EXCEPT !.alone = FALSE]
                       ELSE task[s]])
    /\ sem' = sem - 1
    /\ run' = [run EXCEPT !.state[t] = "running"]
    /\ UNCHANGED <<vendor, db, blob, concurrency, dlAttempts, lastDone,
                   downloads, uploads, callsLeft, faultsLeft, fin, fout>>

\* the handler of photo t enters `async with sem` and calls
\* cache_rg_image_to_blob, which runs to its first await
handle_photo(t) ==
    /\ run.pc = "gather"
    /\ t \in DOMAIN run.photos
    /\ run.state[t] = "pending"
    /\ sem > 0
    /\ LET u == run.photos[t].url.parsed
           c == IF run.script = "rehost"
                THEN _canonicalize_url(canonicalize_url(u))
                ELSE _canonicalize_url(u)
           others == { s \in Tasks \ {t} : InFlight(s) /\ task[s].original_url = c }
       IN  task' = Forget([s \in Tasks |->
                       IF s = t
                       THEN [IdleTask EXCEPT
                               !.pc = "lookup", !.url = u, !.original_url = c,
                               !.animal = fin[run.pos + 1].sourceAnimalId,
                               !.pred = lastDone[c], !.alone = (others = {})]
                       ELSE IF s \in others THEN [task[s] EXCEPT !.alone = FALSE]
                       ELSE task[s]])
    /\ sem' = sem - 1
    /\ run' = [run EXCEPT !.state[t] = "running"]
    /\ UNCHANGED <<vendor, db, blob, concurrency, dlAttempts, lastDone,
                   downloads, uploads, callsLeft, faultsLeft, fin, fout>>

\* fout.write(line + "\n"): behind a line without its newline the text
\* lands on that line and ends it
Write(file, line) ==
    IF Unterminated(file)
    THEN [file EXCEPT ![Len(file)].glued = 1]
    ELSE Append(file, line)

\* the record is written without waiting for the handlers of its photos
WriteRecord_early ==
    /\ run.pc = "gather"
    /\ fout' = Write(fout, Line([fin[run.pos + 1] EXCEPT !.photos = run.photos]))
    /\ run' = [run EXCEPT !.pc = "loop", !.pos = @ + 1, !.processed = @ + 1,
                          !.photos = <<>>, !.state = <<>>]
    /\ task' = Forget(task)
    /\ UNCHANGED <<vendor, db, blob, sem, concurrency, dlAttempts, lastDone,
                   downloads, uploads, callsLeft, faultsLeft, fin>>

\* the record is written once every handler has started, not ended
WriteRecord_unjoined ==
    /\ run.pc = "gather"
    /\ \A i \in DOMAIN run.state : run.state[i] # "pending"
    /\ fout' = Write(fout, Line([fin[run.pos + 1] EXCEPT !.photos = run.photos]))
    /\ run' = [run EXCEPT !.pc = "loop", !.pos = @ + 1, !.processed = @ + 1,
                          !.photos = <<>>, !.state = <<>>]
    /\ task' = Forget(task)
    /\ UNCHANGED <<vendor, db, blob, sem, concurrency, dlAttempts, lastDone,
                   downloads, uploads, callsLeft, faultsLeft, fin>>

\* the gather is over: obj["photos"] = photos; fout.write(...); processed += 1
WriteRecord ==
    /\ run.pc = "gather"
    /\ \A i \in DOMAIN run.state : run.state[i] \in {"done", "skipped"}
    /\ fout' = Write(fout, Line([fin[run.pos + 1] EXCEPT !.photos = run.photos]))
    /\ run' = [run EXCEPT !.pc = "loop", !.pos = @ + 1, !.processed = @ + 1,
                          !.photos = <<>>, !.state = <<>>]
    /\ task' = Forget(task)
    /\ UNCHANGED <<vendor, db, blob, sem, concurrency, dlAttempts, lastDone,
                   downloads, uploads, callsLeft, faultsLeft, fin>>

\* the loop ends at the end of the input or at --limit; the files close
Finished ==
    /\ run.pc = "loop"
    /\ AtEnd
    /\ run' = [run EXCEPT !.pc = "done"]
    /\ task' = Forget(task)
    /\ UNCHANGED <<vendor, db, blob, sem, concurrency, dlAttempts, lastDone,
                   downloads, uploads, callsLeft, faultsLeft, fin, fout>>

\* the run is interrupted.  Of the writes of this run the first n reached
\* the file; what was still in the buffer of fout is lost, but for a first
\* piece of write n + 1 when the buffer was flushed in the middle of it
\* (cut).  A piece behind a line without its newline leaves that line
\* without its newline.
Interrupt(n, cut) ==
    /\ run.pc \in {"loop", "gather"}
    /\ n \in 0 .. run.processed
    /\ cut => n < run.processed
    /\ LET g == IF Unterminated(run.kept) THEN 1 ELSE 0
           last == Len(run.kept) + n - g
           flushed == IF n = 0 THEN run.kept ELSE SubSeq(fout, 1, last)
       IN  fout' = IF cut /\ ~Unterminated(flushed)
                   THEN Append(flushed, [fout[last + 1] EXCEPT !.whole = FALSE])
                   ELSE flushed
    /\ run' = [run EXCEPT !.pc = "interrupted", !.photos = <<>>, !.state = <<>>,
                          !.ended = <<>>]
    /\ task' = [t \in Tasks |-> IdleTask]
    /\ sem' = SemSize(concurrency)
    /\ UNCHANGED <<vendor, db, blob, concurrency, dlAttempts, lastDone,
                   downloads, uploads, callsLeft, faultsLeft, fin>>

\* the vendor removes the image at c; taken while a call for c is at its
\* lookup or in its download loop, the moments from which the removal shows
SourceGone(c) ==
    /\ run.script # "none"
    /\ ~IsGone(c)
    /\ \E t \in Tasks : /\ task[t].pc \in {"lookup", "download"}
                        /\ task[t].original_url = c
    /\ Cardinality({ d \in Canons : IsGone(d) }) < MaxGone
    /\ vendor' = [vendor EXCEPT ![c] = Gone]
    /\ UNCHANGED <<db, blob, sem, concurrency, dlAttempts, task, lastDone,
                   downloads, uploads, callsLeft, faultsLeft, fin, fout, run>>

Next ==
    \/ \E t \in Tasks, u \in RawUrls, a \in Animals : StartResolve(t, u, a)
    \/ \E t \in Tasks : LookupHit(t)
    \/ \E t \in Tasks : LookupMiss(t)
    \/ \E t \in Tasks : LookupFail(t)
    \/ \E t \in Tasks : DownloadOk(t)
    \/ \E t \in Tasks, resp \in FailingResponses : DownloadFail(t, resp)
    \/ \E t \in Tasks : PutOk(t)
    \/ \E t \in Tasks : PutFail(t)
    \/ \E t \in Tasks : PutExists(t)
    \/ \E t \in Tasks : HeadOk(t)
    \/ \E t \in Tasks : HeadFail(t)
    \/ \E t \in Tasks : UpsertOk(t)
    \/ \E t \in Tasks : UpsertFail(t)

\* calls side by side while only the mapping store fails: the vendor and the
\* object store answer every request
NextPair ==
    \/ \E t \in Tasks, u \in RawUrls, a \in Animals : StartResolve(t, u, a)
    \/ \E t \in Tasks : LookupHit(t)
    \/ \E t \in Tasks : LookupMiss(t)
    \/ \E t \in Tasks : LookupFail(t)
    \/ \E t \in Tasks : DownloadOk(t)
    \/ \E t \in Tasks : PutOk(t)
    \/ \E t \in Tasks : UpsertOk(t)
    \/ \E t \in Tasks : UpsertFail(t)

\* one reference resolved again and again, whatever the collaborators answer
NextOne ==
    \/ \E t \in Tasks : StartResolve(t, Url("/a.jpg", "width=100", "top"), "42")
    \/ \E t \in Tasks : LookupHit(t)
    \/ \E t \in Tasks : LookupMiss(t)
    \/ \E t \in Tasks : LookupFail(t)
    \/ \E t \in Tasks : DownloadOk(t)
    \/ \E t \in Tasks, resp \in FailingResponses : DownloadFail(t, resp)
    \/ \E t \in Tasks : PutOk(t)
    \/ \E t \in Tasks : PutFail(t)
    \/ \E t \in Tasks : PutExists(t)
    \/ \E t \in Tasks : HeadOk(t)
    \/ \E t \in Tasks : HeadFail(t)
    \/ \E t \in Tasks : UpsertOk(t)
    \/ \E t \in Tasks : UpsertFail(t)

\* a driver script at work
NextRun ==
    \/ \E resume \in BOOLEAN, limit \in {0, MaxLimit} : Launch(resume, limit)
    \/ ReadRecord
    \/ \E t \in Tasks : handle_photo(t)
    \/ \E t \in Tasks : LookupHit(t)
    \/ \E t \in Tasks : LookupMiss(t)
    \/ \E t \in Tasks : LookupFail(t)
    \/ \E t \in Tasks : DownloadOk(t)
    \/ \E t \in Tasks, resp \in FailingResponses : DownloadFail(t, resp)
    \/ \E t \in Tasks : PutOk(t)
    \/ \E t \in Tasks : PutFail(t)
    \/ \E t \in Tasks : PutExists(t)
    \/ \E t \in Tasks : HeadOk(t)
    \/ \E t \in Tasks : HeadFail(t)
    \/ \E t \in Tasks : UpsertOk(t)
    \/ \E t \in Tasks : UpsertFail(t)
    \/ WriteRecord
    \/ Finished
    \/ \E n \in 0 .. run.processed, cut \in BOOLEAN : Interrupt(n, cut)

\* the output of a finished batch run is given to the repair script as its
\* input (--in), with a new output file (--out)
RepairOutput ==
    /\ run.script = "rehost"
    /\ run.pc = "done"
    /\ run.runs < MaxRuns
    /\ \A i \in DOMAIN fout : fout[i].whole
    /\ fin' = [i \in DOMAIN fout |-> fout[i].rec]
    /\ fout' = <<>>
    /\ run' = [NoRun EXCEPT !.script = "repair", !.runs = run.runs,
                            !.env = run.env]
    /\ task' = [t \in Tasks |-> IdleTask]
    /\ UNCHANGED <<vendor, db, blob, sem, concurrency, dlAttempts, lastDone,
                   downloads, uploads, callsLeft, faultsLeft>>

\* whole passes, never interrupted: the batch script, then the repair script
\* over its output
NextPass ==
    \/ Launch(FALSE, 0)
    \/ ReadRecord
    \/ \E t \in Tasks : handle_photo(t)
    \/ \E t \in Tasks : LookupHit(t)
    \/ \E t \in Tasks : LookupMiss(t)
    \/ \E t \in Tasks : LookupFail(t)
    \/ \E t \in Tasks : DownloadOk(t)
    \/ \E t \in Tasks, resp \in FailingResponses : DownloadFail(t, resp)
    \/ \E t \in Tasks : PutOk(t)
    \/ \E t \in Tasks : PutFail(t)
    \/ \E t \in Tasks : PutExists(t)
    \/ \E t \in Tasks : HeadOk(t)
    \/ \E t \in Tasks : HeadFail(t)
    \/ \E t \in Tasks : UpsertOk(t)
    \/ \E t \in Tasks : UpsertFail(t)
    \/ WriteRecord
    \/ Finished
    \/ \E c \in Canons : SourceGone(c)
    \/ RepairOutput

\* the output of a finished repair run is given to the repair script again
RepairAgain ==
    /\ run.script = "repair"
    /\ run.pc = "done"
    /\ run.runs < MaxRuns
    /\ \A i \in DOMAIN fout : fout[i].whole
    /\ fin' = [i \in DOMAIN fout |-> fout[i].rec]
    /\ fout' = <<>>
    /\ run' = [NoRun EXCEPT !.script = "repair", !.runs = run.runs,
                            !.env = run.env]
    /\ task' = [t \in Tasks |-> IdleTask]
    /\ UNCHANGED <<vendor, db, blob, sem, concurrency, dlAttempts, lastDone,
                   downloads, uploads, callsLeft, faultsLeft>>

\* the repair script run over its own output while the vendor removes images
NextTwice ==
    \/ Launch(FALSE, 0)
    \/ ReadRecord
    \/ \E t \in Tasks : handle_photo(t)
    \/ \E t \in Tasks : LookupHit(t)
    \/ \E t \in Tasks : LookupMiss(t)
    \/ \E t \in Tasks : LookupFail(t)
    \/ \E t \in Tasks : DownloadOk(t)
    \/ \E t \in Tasks, resp \in FailingResponses : DownloadFail(t, resp)
    \/ \E t \in Tasks : PutOk(t)
    \/ \E t \in Tasks : PutFail(t)
    \/ \E t \in Tasks : PutExists(t)
    \/ \E t \in Tasks : HeadOk(t)
    \/ \E t \in Tasks : HeadFail(t)
    \/ \E t \in Tasks : UpsertOk(t)
    \/ \E t \in Tasks : UpsertFail(t)
    \/ WriteRecord
    \/ Finished
    \/ \E c \in Canons : SourceGone(c)
    \/ RepairAgain

\* one run of a script from its start to its end, never interrupted
FirstLaunch == run.runs = 0 /\ Launch(FALSE, 0)

NextDrain ==
    \/ FirstLaunch
    \/ ReadRecord
    \/ \E t \in Tasks : handle_photo(t)
    \/ \E t \in Tasks : LookupHit(t)
    \/ \E t \in Tasks : LookupMiss(t)
    \/ \E t \in Tasks : LookupFail(t)
    \/ \E t \in Tasks : DownloadOk(t)
    \/ \E t \in Tasks, resp \in FailingResponses : DownloadFail(t, resp)
    \/ \E t \in Tasks : PutOk(t)
    \/ \E t \in Tasks : PutFail(t)
    \/ \E t \in Tasks : PutExists(t)
    \/ \E t \in Tasks : HeadOk(t)
    \/ \E t \in Tasks : HeadFail(t)
    \/ \E t \in Tasks : UpsertOk(t)
    \/ \E t \in Tasks : UpsertFail(t)
    \/ WriteRecord
    \/ Finished
    \/ \E c \in Canons : SourceGone(c)

\* the repair script at work while the vendor removes images
NextRepair ==
    \/ NextRun
    \/ \E c \in Canons : SourceGone(c)

(***************************************************************************)
(* The filters of the handlers by themselves: a driver reads one record    *)
(* whose photos are drawn from references of every kind, and goes on to    *)
(* write it when the filters select none of them.                          *)
(***************************************************************************)
SelectRefs ==
    { RgRef(Url("/a.jpg", "", "")),
      BlobRef(PriorBlobUrl),
      EmptyRef,
      \* another site
      RgRef([Url("/a.jpg", "", "") EXCEPT !.netloc = "example.org"]),
      \* a host whose name ends in the vendor's
      RgRef([Url("/a.jpg", "", "") EXCEPT !.netloc = "notrescuegroups.org"]),
      \* a vendor URL that names the host of the object store
      RgRef(Url("/a.jpg", "from=blob.vercel-storage.com", "")) }

SelectInputs ==
    { << Record("42", << Photo(a, e), Photo(b, f) >>) >> :
         a \in SelectRefs, b \in SelectRefs,
         e \in {None, "retryable_http:503"}, f \in {None, "retryable_http:503"} }

InitSelect ==
    /\ Stores({FirstVendorConfig}, {1}, {DownloadAttempts}, 0, 0)
    /\ fin \in SelectInputs
    /\ fout = <<>>
    /\ \E script \in {"rehost", "repair"} : run = [NoRun EXCEPT !.script = script]

NextSelect ==
    \/ Launch(FALSE, 0)
    \/ ReadRecord
    \/ WriteRecord
    \/ Finished

(***************************************************************************)
(* The environment of a driver: each of the two variables set or not, an   *)
(* output file that is there already or not.                               *)
(***************************************************************************)
InitConfig ==
    /\ Stores({FirstVendorConfig}, {1}, {DownloadAttempts}, 0, RunFaults)
    /\ \E script \in {"rehost", "repair"}, dsn \in BOOLEAN, token \in BOOLEAN :
          /\ fin = (IF script = "rehost" THEN RehostInput ELSE RepairInput)
          /\ run = [NoRun EXCEPT !.script = script,
                                 !.env = [DATABASE_URL |-> dsn,
                                          BLOB_READ_WRITE_TOKEN |-> token]]
    /\ fout \in {<<>>, <<Line(RepairInput[1])>>}

NextConfig ==
    \/ SystemExit
    \/ NextRun

(***************************************************************************)
(* The two paths of a driver: --out names another file than --in (same is  *)
(* FALSE, as everywhere else) or the very file (fin and fout are then two  *)
(* views of the one file).                                                 *)
(***************************************************************************)
InitPaths ==
    /\ Stores({FirstVendorConfig}, {1}, {DownloadAttempts}, 0, RunFaults)
    /\ \E script \in {"rehost", "repair"}, same \in BOOLEAN :
          /\ fin = (IF script = "rehost" THEN RehostInput ELSE RepairInput)
          /\ run = [NoRun EXCEPT !.script = script, !.same = same]
          /\ fout = IF same THEN [i \in DOMAIN fin |-> Line(fin[i])] ELSE <<>>

(***************************************************************************)
(* The mapping store over time: resolve calls one after another while the  *)
(* vendor comes to serve other bytes at a URL.                             *)
(***************************************************************************)
\* what the vendor serves at c once it has replaced the image: a page of
\* text under status 200
Replaced == Content("junkB", Header("text/html", ""))

\* taken while a call for c is at its lookup or in its download loop, the
\* moments from which the change shows
VendorChanges(c) ==
    /\ run.script = "none"
    /\ vendor[c] # Replaced
    /\ \E t \in Tasks : /\ task[t].pc \in {"lookup", "download"}
                        /\ task[t].original_url = c
    /\ vendor' = [vendor EXCEPT ![c] = Replaced]
    /\ UNCHANGED <<db, blob, sem, concurrency, dlAttempts, task, lastDone,
                   downloads, uploads, callsLeft, faultsLeft, fin, fout, run>>

InitStore ==
    Start({FirstVendorConfig}, {1}, {DownloadAttempts}, SeqCalls, StoreFaults)

NextStore ==
    \/ Next
    \/ \E c \in Canons : VendorChanges(c)

(***************************************************************************)
(* Canonicalization studied by itself: the URL of the one photo of an      *)
(* input file is canonicalized by the batch driver and handed on, or       *)
(* handed on as it is by the repair driver, and canonicalized by the       *)
(* orchestrator.  No lookup follows.                                       *)
(***************************************************************************)
TextRef(text) == [text |-> text, parsed |-> urlparse(text)]

InitCanon ==
    /\ Stores({FirstVendorConfig}, {1}, {DownloadAttempts}, 0, 0)
    /\ \E text \in CanonInputs : fin = <<Record("42", <<Photo(TextRef(text), None)>>)>>
    /\ fout = <<>>
    /\ run = NoRun

\* original = canonicalize_url(url)
DriverCanonicalizes(t) ==
    /\ task[t].pc = "idle"
    /\ \A s \in Tasks : s < t => task[s].pc # "idle"
    /\ LET url == fin[1].photos[1].url
       IN  task' = [task EXCEPT ![t].pc = "canonical", ![t].url = url,
                                ![t].original_url = TextRef(DriverKey(url.text))]
    /\ UNCHANGED <<vendor, db, blob, sem, concurrency, dlAttempts, lastDone,
                   downloads, uploads, callsLeft, faultsLeft, fin, fout, run>>

\* original_url = _canonicalize_url(original_url), of what the driver passed
OrchestratorCanonicalizes(t) ==
    /\ task[t].pc \in {"idle", "canonical"}
    /\ \A s \in Tasks : s < t => task[s].pc # "idle"
    /\ LET passed == IF task[t].pc = "idle" THEN fin[1].photos[1].url
                     ELSE task[t].original_url
       IN  task' = [task EXCEPT ![t].pc = "keyed", ![t].url = passed,
                                ![t].original_url = TextRef(OrchestratorKey(passed.text))]
    /\ UNCHANGED <<vendor, db, blob, sem, concurrency, dlAttempts, lastDone,
                   downloads, uploads, callsLeft, faultsLeft, fin, fout, run>>

NextCanon ==
    \/ \E t \in Tasks : DriverCanonicalizes(t)
    \/ \E t \in Tasks : OrchestratorCanonicalizes(t)

(***************************************************************************)
(* Calls one after another over a mapping store that may hold, from        *)
(* before, a row without a public URL for one of the URLs.                 *)
(***************************************************************************)
LegacyRow(public_url) ==
    [source_entity |-> "animal",
     source_entity_id |-> "7", source_media_id |-> "m1",
     public_url |-> public_url, sha256 |-> None,
     content_type |-> NoCT, bytes |-> None,
     width |-> None, height |-> None, file_ext |-> None]

InitLegacy ==
    /\ vendor = FirstVendorConfig
    /\ db \in {<<>>} \cup { (_canonicalize_url(Url("/a.jpg", "", "")) :> LegacyRow(u)) :
                              u \in {"", None} }
    /\ blob = <<>>
    /\ concurrency = 1
    /\ sem = SemSize(concurrency)
    /\ dlAttempts = DownloadAttempts
    /\ task = [t \in Tasks |-> IdleTask]
    /\ lastDone = [c \in Canons |-> NoCall]
    /\ downloads = [c \in Canons |-> 0]
    /\ uploads = [c \in Canons |-> 0]
    /\ callsLeft = SeqCalls
    /\ faultsLeft = StoreFaults
    /\ fin = <<>>
    /\ fout = <<>>
    /\ run = NoRun

Spec == Init /\ [][Next]_vars
SpecSeq == InitSeq /\ [][Next]_vars
SpecBackoff == InitBackoff /\ [][Next]_vars
SpecRun == InitRun /\ [][NextRun]_vars
SpecRepair == InitRepair /\ [][NextRepair]_vars
SpecPass == InitPass /\ [][NextPass]_vars
SpecTwice == InitTwice /\ [][NextTwice]_vars
\* the event loop runs whatever can take a step
SpecDrain == InitDrain /\ [][NextDrain]_vars /\ WF_vars(NextDrain)
SpecStore == InitStore /\ [][NextStore]_vars
SpecLegacy == InitLegacy /\ [][Next]_vars
\* the event loop runs a call that can take a step: every request is
\* answered and every sleep ends
SpecOne == InitOne /\ [][NextOne]_vars /\ WF_vars(NextOne)
SpecCanon == InitCanon /\ [][NextCanon]_vars
SpecPair == InitPair /\ [][NextPair]_vars
SpecPaths == InitPaths /\ [][NextRun]_vars
SpecConfig == InitConfig /\ [][NextConfig]_vars
SpecAgain == InitAgain /\ [][NextRun]_vars
SpecSelect == InitSelect /\ [][NextSelect]_vars

(***************************************************************************)
(* Properties.                                                             *)
(***************************************************************************)

\* C1: a cache hit does no network work: when the lookup of a resolve call
\* returns a non-empty public_url, the call returns exactly that URL (the one
\* of the row) and has made no fetch, no put, no head and no upsert.
C1_HitNoNetwork ==
    \A t \in Tasks :
        task[t].hit =>
            /\ task[t].pc = "returned"
            /\ task[t].mapped # None /\ task[t].mapped # ""
            /\ task[t].result = task[t].mapped
            /\ task[t].original_url \in DOMAIN db
            /\ task[t].result = db[task[t].original_url].public_url
            /\ task[t].fetches = 0 /\ task[t].puts = 0
            /\ task[t].heads = 0 /\ task[t].upserts = 0

\* a call that ended on a hit, after a lookup that first failed
C1_Witness ==
    \E t \in Tasks :
        /\ task[t].hit /\ task[t].pc = "returned"
        /\ task[t].lookups = 2
        /\ task[t].url.query = "width=100"

\* C2: within one run, every canonical URL is downloaded successfully at most
\* once and uploaded at most once, under every interleaving of the calls.
C2_AtMostOnce ==
    \A c \in Canons : downloads[c] <= 1 /\ uploads[c] <= 1

\* The second of two calls made one after the other, and the first one:
\* task t has ended a call whose canonical URL was resolved before, by a call
\* that had returned a public URL before this one started.
SecondOfTwo(t) ==
    /\ task[t].pc \in {"returned", "raised"}
    /\ task[t].pred.exists /\ task[t].pred.ok
    /\ task[t].alone /\ task[t].pred.alone

C4_Idempotent ==
    \A t \in Tasks :
        (SecondOfTwo(t) /\ task[t].pred.url = task[t].url /\ task[t].pc = "returned") =>
            /\ task[t].result = task[t].pred.result
            /\ task[t].puts = 0

\* C4 as amended: it does so when the first call stored the mapping and the
\* second call's lookup got an answer; it then does no network work at all.
C4_IdempotentWhenStored ==
    \A t \in Tasks :
        (SecondOfTwo(t) /\ task[t].pred.url = task[t].url
            /\ task[t].pred.stored /\ ~task[t].lookupGaveUp) =>
            /\ task[t].pc = "returned"
            /\ task[t].result = task[t].pred.result
            /\ task[t].puts = 0 /\ task[t].heads = 0
            /\ task[t].fetches = 0 /\ task[t].upserts = 0

\* the same URL resolved twice, the first time by a download and an upload
C4_Witness ==
    \E t \in Tasks :
        /\ SecondOfTwo(t) /\ task[t].pred.url = task[t].url
        /\ task[t].pred.stored /\ ~task[t].pred.hit
        /\ task[t].pc = "returned" /\ task[t].result = task[t].pred.result
        /\ task[t].lookups = 1

\* Two distinct canonical URLs whose last resolves both uploaded payload b.
BothServed(c1, c2, b) ==
    /\ c1 # c2
    /\ lastDone[c1].ok /\ lastDone[c2].ok
    /\ lastDone[c1].data = b /\ lastDone[c2].data = b

ObjectsOf(b) == { p \in DOMAIN blob : blob[p].data = b }

\* C5 as stated: two URLs that serve the same bytes end as two rows and one
\* object, whatever content type each declares.
C5_OneObject ==
    \A c1, c2 \in Canons, b \in Payloads :
        BothServed(c1, c2, b) =>
            /\ lastDone[c1].pathname = lastDone[c2].pathname
            /\ Cardinality(ObjectsOf(b)) = 1
            /\ c1 \in DOMAIN db /\ c2 \in DOMAIN db

\* C5 as amended: both uploads go to pets/<sha256(b)>.<ext>; they are one
\* object when the two sources give the same extension and two objects when
\* they do not; and each URL whose upsert succeeded has its own row, which
\* points at its object.
C5_OneObjectPerExtension ==
    \A c1, c2 \in Canons, b \in Payloads :
        BothServed(c1, c2, b) =>
            /\ \A c \in {c1, c2} :
                  /\ lastDone[c].pathname =
                        "pets/" \o Sha256(b) \o "." \o lastDone[c].ext
                  /\ lastDone[c].pathname \in ObjectsOf(b)
                  /\ lastDone[c].stored =>
                        /\ c \in DOMAIN db
                        /\ db[c].sha256 = Sha256(b)
                        /\ db[c].public_url = lastDone[c].result
            /\ ObjectsOf(b) = {lastDone[c1].pathname, lastDone[c2].pathname}
            /\ (lastDone[c1].ext = lastDone[c2].ext) <=> (Cardinality(ObjectsOf(b)) = 1)

\* the same image behind two URLs, one declaring image/jpeg and one nothing:
\* two rows, one object
C5_Witness ==
    \E c1, c2 \in Canons :
        /\ BothServed(c1, c2, "jpegA")
        /\ vendor[c1].ctype # vendor[c2].ctype
        /\ lastDone[c1].stored /\ lastDone[c2].stored
        /\ DOMAIN db = {c1, c2}
        /\ Cardinality(ObjectsOf("jpegA")) = 1

\* The pathname of an upload, written out; hex is the digest of the payload.
Exts == {"jpg", "png", "webp", "gif", "bin"}

\* C6 as stated: the pathname of an upload is assets/<sha256>.<ext>.
C6_AssetsPath ==
    \A t \in Tasks :
        task[t].pathname # None =>
            task[t].pathname = "assets/" \o Sha256(task[t].data) \o "." \o task[t].ext

\* C6 as amended: the pathname is pets/<sha256>.<ext>, of the downloaded bytes
\* and the inferred extension, and of nothing else; every object of the store
\* lies at the pathname of its own payload.
C6_PetsPath ==
    /\ \A t \in Tasks :
          task[t].pathname # None =>
              /\ task[t].data = vendor[task[t].original_url].data
              /\ task[t].ext \in Exts
              /\ task[t].pathname =
                    "pets/" \o Sha256(task[t].data) \o "." \o task[t].ext
    /\ \A p \in DOMAIN blob :
          \E e \in Exts : p = "pets/" \o Sha256(blob[p].data) \o "." \o e

\* two uploads of one payload for different URLs and animals, at one pathname
C6_Witness ==
    \E t \in Tasks :
        /\ task[t].puts = 1 /\ task[t].pc = "upsert"
        /\ \E c \in Canons :
              /\ c # task[t].original_url
              /\ lastDone[c].ok /\ lastDone[c].pathname = task[t].pathname
        /\ task[t].animal = "77"

\* C7: a 404 is never retried: the call that got it has raised the permanent
\* error 404_not_found, made no fetch after it and slept after no fetch but
\* the ones before it (so a source that answers 404 at once is fetched exactly
\* once), and has made no put, no head and no upsert.
C7_NotFoundIsFinal ==
    \A t \in Tasks :
        task[t].lastResp = Http(404) =>
            /\ task[t].pc = "raised"
            /\ task[t].err = "404_not_found:"
            /\ task[t].fetches = task[t].dlSleeps + 1
            /\ task[t].fetched = 0
            /\ task[t].puts = 0 /\ task[t].heads = 0 /\ task[t].upserts = 0
            /\ task[t].result = None

\* a source that answers 404 to the first fetch
C7_Witness ==
    \E t \in Tasks :
        /\ task[t].lastResp = Http(404) /\ task[t].pc = "raised"
        /\ task[t].fetches = 1 /\ task[t].dlSleeps = 0

Retryable(resp) ==
    \/ resp.kind = "transport"
    \/ resp.kind = "http" /\ resp.status \in {429, 500, 502, 503, 504}

\* C8: download makes at most 5 fetches; it waits after every failed fetch
\* that another one follows and after no other; when the source answers the
\* last of them with a retryable condition too, it raises the error of that
\* last fetch; and it stops at the first fetch that succeeds.
C8_FiveAttempts ==
    \A t \in Tasks :
        /\ task[t].fetches <= 5
        /\ task[t].fetched <= 1
        /\ task[t].pc = "download" =>
              /\ task[t].fetched = 0
              /\ task[t].dlSleeps = task[t].fetches
              /\ task[t].fetches < 5
              /\ task[t].fetches > 0 => task[t].lastSleep.phase = "download"
        /\ (task[t].pc # "download" /\ task[t].fetches > 0) =>
              task[t].dlSleeps = task[t].fetches - 1
        /\ task[t].fetched = 1 => task[t].lastResp = Http(200)
        /\ (task[t].pc = "raised" /\ Retryable(task[t].lastResp)) =>
              /\ task[t].fetches = 5
              /\ task[t].err = DownloadOnceError(task[t].lastResp)
              /\ task[t].puts = 0

\* five fetches answered 503, four waits, and the error of the fifth raised
C8_Witness ==
    \E t \in Tasks :
        /\ task[t].pc = "raised" /\ task[t].fetches = 5 /\ task[t].dlSleeps = 4
        /\ task[t].lastResp = Http(503) /\ task[t].err = "retryable_http:503"

\* C9: a 403 (not a 2xx, not 404, not in the retryable set) is a hard error:
\* download raises on it and makes no further fetch.
C9_HardErrorIsFinal ==
    \A t \in Tasks :
        task[t].lastResp = Http(403) =>
            /\ task[t].pc = "raised"
            /\ task[t].fetches = task[t].dlSleeps + 1

\* The base wait, in seconds, before retry number n.
BaseWait(n) ==
    CASE n = 0 -> 1
      [] n = 1 -> 2
      [] n = 2 -> 4
      [] n = 3 -> 8
      [] OTHER -> 15

C10_Waits ==
    \A t \in Tasks :
        task[t].lastSleep.phase # "none" =>
            /\ task[t].lastSleep.ms >= BaseWait(task[t].lastSleep.attempt) * 1000
            /\ task[t].lastSleep.ms <= BaseWait(task[t].lastSleep.attempt) * 1000 + 350

C10_RetryAfter503 ==
    \A t \in Tasks :
        (/\ task[t].pc = "download" /\ task[t].fetches = 1
         /\ task[t].lastResp = Http(503)
         /\ task'[t].fetches = 2 /\ task'[t].lastResp = Http(200)) =>
            /\ task[t].lastSleep.phase = "download"
            /\ task[t].lastSleep.ms >= 1000
            /\ task'[t].pc = "put" /\ task'[t].data # None

\* C10: every backoff wait before retry n lies between min(2^n, 15) seconds
\* and that plus 0.35 s (1, 2, 4, 8, then 15); and a 503 answered by a 200 on
\* the second fetch makes the download succeed after a wait of at least 1 s.
C10_Backoff == []C10_Waits /\ [][C10_RetryAfter503]_vars

\* the wait after a fifth failed fetch, where the cap applies
C10_Witness ==
    \E t \in Tasks :
        /\ task[t].lastSleep.phase = "download"
        /\ task[t].lastSleep.attempt = 4
        /\ task[t].lastSleep.ms = 15349

\* C11: the lookup never fails a resolve: a call makes at most 3 lookups, it
\* leaves the lookup only by returning a hit or by going on to the download,
\* and after three failed lookups it stands where a miss would have put it
\* (about to make its first fetch, nothing raised) and can go on to return.
C11_LookupNeverFatal ==
    /\ [](\A t \in Tasks :
            /\ task[t].lookups <= 3
            /\ task[t].pc = "lookup" => (task[t].lookups < 3 /\ task[t].err = None)
            /\ task[t].lookupGaveUp => (task[t].lookups = 3 /\ ~task[t].hit)
            /\ (task[t].pc = "raised" /\ task[t].lookupGaveUp) => task[t].fetches > 0)
    /\ [][\A t \in Tasks :
            (task[t].pc = "lookup" /\ task'[t].pc # "lookup") =>
                \/ task'[t].pc = "returned" /\ task'[t].hit
                \/ task'[t] = [task[t] EXCEPT !.pc = "download", !.attempt = 0,
                                  !.lookups = task'[t].lookups,
                                  !.lookupGaveUp = task'[t].lookupGaveUp,
                                  !.lastSleep = NoSleep]]_vars

\* three failed lookups, then a download, an upload and an upsert
C11_Witness ==
    \E t \in Tasks :
        /\ task[t].lookupGaveUp /\ task[t].lookups = 3
        /\ task[t].pc = "returned" /\ task[t].fetched = 1
        /\ task[t].puts = 1 /\ task[t].upsertOk

\* C12: a call whose three upserts all failed returns the public URL of its
\* upload and raises nothing; and the next call for that URL, when no call
\* ever stored its mapping, is not a cache hit: it fetches again.
C12_UpsertSwallowed ==
    \A t \in Tasks :
        /\ (task[t].upserts = 3 /\ ~task[t].upsertOk) =>
              /\ task[t].pc = "returned" /\ task[t].err = None
              /\ task[t].result = task[t].public_url
              /\ task[t].result = BlobUrl(task[t].pathname)
              /\ task[t].pathname \in DOMAIN blob
        /\ (/\ SecondOfTwo(t) /\ ~task[t].pred.stored
            /\ downloads[task[t].original_url] = 1 + task[t].fetched) =>
              /\ ~task[t].hit
              /\ task[t].pc = "returned" => task[t].fetched = 1

\* an upload whose mapping was lost, and the next call of the URL fetching
C12_Witness ==
    \E t \in Tasks :
        /\ SecondOfTwo(t) /\ ~task[t].pred.stored /\ task[t].pred.fetched = 1
        /\ task[t].pc = "returned" /\ task[t].fetched = 1
        /\ task[t].result = task[t].pred.result

\* C13: when a put is refused with "already exists" and the head of the path
\* gives a URL, the put returns that URL: the call goes on to the upsert with
\* it, raises nothing, leaves the store as it is and makes no further put.
C13_ConflictReconciled ==
    [][\A t \in Tasks :
          /\ (/\ task[t].pc = "head" /\ task'[t].heads = task[t].heads + 1
              /\ faultsLeft' = faultsLeft) =>
                /\ task'[t].pc = "upsert" /\ task'[t].err = None
                /\ task'[t].public_url = BlobUrl(task[t].pathname)
                /\ task'[t].puts = task[t].puts
                /\ blob' = blob /\ task[t].pathname \in DOMAIN blob
          /\ (task[t].pc = "upsert" /\ task'[t].pc \in {"upsert", "returned"}) =>
                /\ task'[t].puts = task[t].puts
                /\ task'[t].heads = task[t].heads
                /\ task'[t].public_url = task[t].public_url]_vars

\* a call that returned the URL of an object it did not write
C13_Witness ==
    \E t \in Tasks :
        /\ task[t].pc = "returned" /\ task[t].heads = 1 /\ task[t].puts = 1
        /\ uploads[task[t].original_url] = 0
        /\ task[t].result = BlobUrl(task[t].pathname)

\* C14: put makes at most 4 attempts, with the backoff wait of the download
\* after each failed one but the fourth; when the fourth fails too, the call
\* raises the error of that attempt and has made no upsert.
C14_FourPuts ==
    /\ [](\A t \in Tasks :
            /\ task[t].puts <= 4
            /\ task[t].pc = "put" =>
                  /\ task[t].puts < 4 /\ task[t].attempt = task[t].puts
                  /\ task[t].puts > 0 =>
                        /\ task[t].lastSleep.phase = "put"
                        /\ task[t].lastSleep.attempt = task[t].puts - 1
                        /\ \E j \in JitterDraws : task[t].lastSleep.ms =
                              _sleep_backoff(task[t].puts - 1, j)
            /\ (task[t].pc = "raised" /\ task[t].puts > 0) =>
                  /\ task[t].puts = 4
                  /\ task[t].upserts = 0 /\ task[t].result = None)
    /\ [][\A t \in Tasks :
            /\ (task[t].pc = "put" /\ task'[t].pc = "raised") =>
                  task'[t].err = "blob_put_failed"
            /\ (task[t].pc = "head" /\ task'[t].pc = "raised") =>
                  task'[t].err = "already exists"]_vars

\* four refused puts: three waits, then the error of the fourth is raised
C14_Witness ==
    \E t \in Tasks :
        /\ task[t].pc = "raised" /\ task[t].puts = 4
        /\ task[t].err = "blob_put_failed" /\ task[t].fetched = 1
        /\ task[t].original_url \notin DOMAIN db

(***************************************************************************)
(* The driver scripts.                                                     *)
(***************************************************************************)
\* C15: a run of the batch driver with --resume over an output file that
\* holds k whole lines skips the first k input lines, processes only the
\* lines after position k, appends one line for each of them in order, and
\* leaves the first k lines of the output file as they were.
C15_ResumeAppends ==
    (/\ run.script = "rehost" /\ run.resume /\ run.pc # "off"
     /\ \A i \in DOMAIN run.kept : run.kept[i].whole)
    => LET k == Len(run.kept)
       IN  /\ run.skip = k
           /\ Len(fout) >= k
           /\ SubSeq(fout, 1, k) = run.kept
           /\ run.pc \in {"loop", "gather", "done"} =>
                 /\ run.pos = Min(k, Len(fin)) + run.processed
                 /\ Len(fout) = k + run.processed
                 /\ \A i \in (k + 1) .. Len(fout) :
                       /\ i <= Len(fin)
                       /\ fout[i].whole /\ fout[i].glued = 0
                       /\ fout[i].rec.sourceAnimalId = fin[i].sourceAnimalId

\* a resumed run found one whole line, processed the second record only and
\* ended with the two lines
C15_Witness ==
    /\ run.script = "rehost" /\ run.resume /\ run.pc = "done"
    /\ Len(run.kept) = 1 /\ run.kept[1].whole
    /\ run.processed = 1
    /\ Len(fout) = 2 /\ fout[1] = run.kept[1]
    /\ fout[2].rec.sourceAnimalId = fin[2].sourceAnimalId

\* C16: after a batch run that was interrupted and then re-run with --resume
\* to the end of the input, the output file holds exactly one whole line for
\* each input record, in the order of the input.
C16_OneLinePerRecord ==
    (/\ run.script = "rehost" /\ run.resume /\ run.pc = "done"
     /\ run.limit = 0)
    => /\ Len(fout) = Len(fin)
       /\ \A i \in DOMAIN fout :
             /\ fout[i].whole /\ fout[i].glued = 0
             /\ fout[i].rec.sourceAnimalId = fin[i].sourceAnimalId

\* C17: both drivers write the records in the order of the input, whatever
\* order the handlers of a record's photos end in, and write a record's line
\* only when every handler of the record has ended: no call is in flight,
\* every photo the filters selected has been through its handler, the others
\* are as they were read, and the line carries the photos as the handlers
\* left them.
C17_JoinedInOrder ==
    /\ [](/\ run.pc \in {"loop", "gather", "done"} /\ run.kept = <<>>
          => /\ Len(fout) = run.processed
             /\ \A i \in DOMAIN fout :
                   /\ fout[i].whole
                   /\ fout[i].rec.sourceAnimalId = fin[i].sourceAnimalId)
    /\ [][run'.processed = run.processed + 1
          => /\ \A t \in Tasks : ~InFlight(t)
             /\ \A i \in DOMAIN run.photos :
                   IF Selected(run.script, fin[run.pos + 1].photos[i])
                   THEN \E j \in DOMAIN run.ended : run.ended[j] = i
                   ELSE run.photos[i] = fin[run.pos + 1].photos[i]
             /\ run.pos = run.skip + run.processed
             /\ Len(fout') = Len(fout) + 1
                   => fout'[Len(fout')] =
                         Line([fin[run.pos + 1] EXCEPT !.photos = run.photos])]_vars

\* the second photo of a record was resolved before the first, and the
\* record was written in its place with both outcomes
C17_Witness ==
    /\ run.pc = "loop" /\ run.kept = <<>>
    /\ run.ended = <<2, 1>>
    /\ run.processed >= 1 /\ Len(fout) = run.processed
    /\ fout[Len(fout)].rec.sourceAnimalId = fin[Len(fout)].sourceAnimalId
    /\ \A i \in {1, 2} :
          fout[Len(fout)].rec.photos[i] # fin[Len(fout)].photos[i]

\* C18: in every state of a run of either driver the number of calls of
\* cache_rg_image_to_blob in flight is at most max(1, concurrency), the size
\* of the semaphore, also when a record has more photos than that; the free
\* slots and the calls in flight add up to the size.
C18_BoundedInFlight ==
    run.script # "none"
    => LET inflight == Cardinality({ t \in Tasks : InFlight(t) })
       IN  /\ inflight <= Max(1, concurrency)
           /\ sem >= 0
           /\ sem + inflight = Max(1, concurrency)

\* --concurrency 0: one call holds the only slot while the handler of the
\* record's other photo waits for it
C18_Witness ==
    /\ run.pc = "gather" /\ concurrency = 0 /\ sem = 0
    /\ Cardinality({ t \in Tasks : InFlight(t) }) = 1
    /\ \E i \in DOMAIN run.state : run.state[i] = "pending"

\* C19: when cache_rg_image_to_blob raises for a photo in the batch driver,
\* the photo keeps its url and gets a rehostError, the first 200 characters
\* at most of the exception's text; the record's other photos are not
\* touched by it and go through their own handlers, the gather goes on, and
\* the record is written with the failed photo in it: in the lines
\* of the output a photo with a rehostError has the url of the input, and
\* every other photo the filters selected has been rehosted.
C19_FailureIsolated ==
    /\ [](/\ run.script = "rehost" /\ run.pc \in {"loop", "gather", "done"}
          /\ run.kept = <<>>
          => \A i \in DOMAIN fout : \A j \in DOMAIN fin[i].photos :
                LET old == fin[i].photos[j]
                    new == fout[i].rec.photos[j]
                IN  IF new.rehostError # None
                    THEN /\ new.url = old.url
                         /\ Len(new.rehostError) <= 200
                    ELSE IF Selected("rehost", old)
                    THEN is_already_rehosted(new.url)
                    ELSE new = old)
    /\ [][\A t \in Tasks :
             (run.script = "rehost" /\ InFlight(t) /\ task'[t].pc = "raised")
             => /\ run'.pc = "gather"
                /\ run'.photos[t].url = run.photos[t].url
                /\ run'.photos[t].rehostError = Slice(ErrText(task'[t]), 200)
                /\ Len(run'.photos[t].rehostError) <= 200
                /\ run'.state[t] = "done"
                /\ run'.failed = run.failed + 1
                /\ \A i \in DOMAIN run.photos \ {t} :
                      /\ run'.photos[i] = run.photos[i]
                      /\ run'.state[i] = run.state[i]]_vars

\* the vendor had no image at the long URL: the 404 text, longer than 200
\* characters, was cut to 200; the record's first photo was rehosted, the
\* record was written and so was the next one
C19_Witness ==
    /\ run.script = "rehost" /\ run.pc = "done" /\ run.kept = <<>>
    /\ Len(fout) = 2
    /\ fout[1].rec.photos[2].url = fin[1].photos[2].url
    /\ Len(fout[1].rec.photos[2].rehostError) = 200
    /\ StartsWith(fout[1].rec.photos[2].rehostError, "404_not_found:")
    /\ is_already_rehosted(fout[1].rec.photos[1].url)
    /\ fout[1].rec.photos[1].rehostError = None
    /\ is_already_rehosted(fout[2].rec.photos[1].url)

\* C20 (as stated): in the repair pass, a photo that carries a rehostError
\* and whose source URL was gone (404) when the pass began ends with url "",
\* missing = true and no rehostError.
C20_GoneMarkedMissing ==
    [][\A t \in Tasks :
          (/\ run.script = "repair" /\ InFlight(t) /\ Ended(t)'
           /\ run.photos[t].rehostError # None
           /\ task[t].original_url \in run.gone0)
          => /\ run'.photos[t].url = EmptyRef
             /\ run'.photos[t].missing
             /\ run'.photos[t].rehostError = None]_vars

\* C20 (amended): such a photo ends with url "", missing = true and no
\* rehostError when the lookup of cache_rg_image_to_blob gives no stored
\* mapping for its URL (a miss, or three failed tries); when the lookup
\* hits, nothing is fetched and the photo ends with the stored public URL,
\* no rehostError and no missing mark.
C20_GoneMarkedMissingUnlessStored ==
    [][\A t \in Tasks :
          (/\ run.script = "repair" /\ InFlight(t) /\ Ended(t)'
           /\ run.photos[t].rehostError # None
           /\ task[t].original_url \in run.gone0)
          => IF task'[t].hit
             THEN /\ run'.photos[t].url = BlobRef(db[task[t].original_url].public_url)
                  /\ ~run'.photos[t].missing
                  /\ run'.photos[t].rehostError = None
             ELSE /\ task'[t].pc = "raised"
                  /\ run'.photos[t].url = EmptyRef
                  /\ run'.photos[t].missing
                  /\ run'.photos[t].rehostError = None
                  /\ run'.marked_missing = run.marked_missing + 1]_vars

\* a photo with a rehostError whose source was gone before the pass and has
\* no stored mapping: the call has just raised the 404 and the photo is
\* marked missing
C20_Witness ==
    \E t \in Tasks :
        /\ run.script = "repair" /\ run.pc = "gather"
        /\ task[t].pc = "raised" /\ ~task[t].hit
        /\ task[t].original_url \in run.gone0
        /\ task[t].original_url \notin DOMAIN db
        /\ fin[run.pos + 1].photos[t].rehostError # None
        /\ run.photos[t].url = EmptyRef
        /\ run.photos[t].missing
        /\ run.photos[t].rehostError = None

\* C21: when cache_rg_image_to_blob raises anything but the 404 of a removed
\* image in the repair pass, the photo's rehostError becomes the first 200
\* characters at most of the new text, its url and its missing mark stay as
\* they were, the record's other photos are not touched, the gather goes
\* on, and the record is written with the photo in it: a photo of the
\* output with a rehostError has the url of the input and is not missing.
C21_RepairFailureKept ==
    /\ [](/\ run.script = "repair" /\ run.pc \in {"loop", "gather", "done"}
          => \A i \in DOMAIN fout : \A j \in DOMAIN fin[i].photos :
                fout[i].whole /\ fout[i].rec.photos[j].rehostError # None
                => /\ fout[i].rec.photos[j].url = fin[i].photos[j].url
                   /\ fout[i].rec.photos[j].missing = fin[i].photos[j].missing
                   /\ Len(fout[i].rec.photos[j].rehostError) <= 200)
    /\ [][\A t \in Tasks :
             (/\ run.script = "repair" /\ InFlight(t) /\ task'[t].pc = "raised"
              /\ ~StartsWith(ErrText(task'[t]), "404_not_found:"))
             => /\ run'.pc = "gather"
                /\ run'.photos[t].rehostError = Slice(ErrText(task'[t]), 200)
                /\ run'.photos[t].url = run.photos[t].url
                /\ run'.photos[t].missing = run.photos[t].missing
                /\ run'.state[t] = "done"
                /\ run'.failed = run.failed + 1
                /\ run'.marked_missing = run.marked_missing
                /\ \A i \in DOMAIN run.photos \ {t} :
                      /\ run'.photos[i] = run.photos[i]
                      /\ run'.state[i] = run.state[i]]_vars

\* a repair pass ended in which the first record's photo failed again, with
\* another error than the one it came with, and the second record was
\* written after it
C21_Witness ==
    /\ run.script = "repair" /\ run.pc = "done" /\ Len(fout) = 2
    /\ fin[1].photos[1].rehostError # None
    /\ fout[1].rec.photos[1].rehostError
          \notin {None, fin[1].photos[1].rehostError}
    /\ fout[1].rec.photos[1].url = fin[1].photos[1].url
    /\ ~fout[1].rec.photos[1].missing
    /\ fout[2].rec.sourceAnimalId = fin[2].sourceAnimalId

\* what the claims call a mirrored URL and a vendor URL: the host is one of
\* the object store's, the host is the vendor's domain or inside it
MirroredUrl(ref) == EndsWith(ref.parsed.netloc, ".blob.vercel-storage.com")
VendorUrl(ref) ==
    \/ ref.parsed.netloc = "rescuegroups.org"
    \/ EndsWith(ref.parsed.netloc, ".rescuegroups.org")

\* C22: in the repair driver a photo that has a mirrored url and no
\* rehostError is passed over and stays as it was read, and every other
\* photo that has a vendor url or a rehostError is taken up by its handler
\* (which calls cache_rg_image_to_blob for it once).
C22_RepairSelection ==
    run.script = "repair" /\ run.pc = "gather"
    => \A i \in DOMAIN run.photos :
          LET old == fin[run.pos + 1].photos[i]
              mirrored == MirroredUrl(old.url) /\ old.rehostError = None
          IN  /\ mirrored => run.state[i] = "skipped" /\ run.photos[i] = old
              /\ (~mirrored /\ (VendorUrl(old.url) \/ old.rehostError # None))
                    => run.state[i] # "skipped"

\* C23: a photo that a driver, batch or repair, resolved is written with the
\* mirrored url and without a rehostError, also when it was read with one.
C23_ErrorCleared ==
    run.script \in {"rehost", "repair"} /\ run.pc \in {"loop", "gather", "done"}
    => \A i \in DOMAIN fout : \A j \in DOMAIN fin[i].photos :
          (/\ fout[i].whole
           /\ ~MirroredUrl(fin[i].photos[j].url)
           /\ MirroredUrl(fout[i].rec.photos[j].url))
          => fout[i].rec.photos[j].rehostError = None

\* C24: the batch driver takes up (and calls cache_rg_image_to_blob for)
\* exactly the photos whose url is not empty, is a vendor URL and is not a
\* mirrored URL; it passes over every other photo and leaves it as it was
\* read.
C24_BatchSelection ==
    run.script = "rehost" /\ run.pc = "gather"
    => \A i \in DOMAIN run.photos :
          LET old == fin[run.pos + 1].photos[i]
              due == /\ old.url.text # ""
                     /\ VendorUrl(old.url)
                     /\ ~MirroredUrl(old.url)
          IN  IF due
              THEN run.state[i] # "skipped"
              ELSE run.state[i] = "skipped" /\ run.photos[i] = old

\* the texts of the exceptions _download_once raises on a retryable answer
RetryableTexts ==
    { "ConnectionError" } \cup
    { "retryable_http:" \o ToString(n) : n \in RETRYABLE_HTTP_STATUS }

\* C25: when the download of a photo fails in the batch driver on a
\* retryable answer after the last attempt, the photo keeps its vendor url,
\* gets the error as its rehostError and is not marked missing; the repair
\* pass that reads the output takes up every photo that carries such a
\* rehostError and writes the record only when its call has ended.
C25_RetryableStaysRepairable ==
    /\ [][\A t \in Tasks :
             (/\ run.script = "rehost" /\ InFlight(t) /\ task'[t].pc = "raised"
              /\ task'[t].err \in RetryableTexts)
             => /\ task'[t].fetches = DownloadAttempts
                /\ run'.photos[t].url = run.photos[t].url
                /\ VendorUrl(run'.photos[t].url)
                /\ run'.photos[t].rehostError = task'[t].err
                /\ ~run'.photos[t].missing
                /\ Selected("repair", run'.photos[t])]_vars
    /\ [](run.script = "repair" /\ run.pc = "gather"
          => \A i \in DOMAIN run.photos :
                fin[run.pos + 1].photos[i].rehostError \in RetryableTexts
                => run.state[i] \in {"pending", "running", "done"})
    /\ [][run.script = "repair" /\ run'.processed = run.processed + 1
          => \A i \in DOMAIN run.photos :
                fin[run.pos + 1].photos[i].rehostError \in RetryableTexts
                => /\ run.state[i] = "done"
                   /\ \E j \in DOMAIN run.ended : run.ended[j] = i]_vars

\* the batch driver gave up on a photo after five retryable answers; the
\* repair pass over its output has resolved that photo
C25_Witness ==
    /\ run.script = "repair" /\ run.pc = "gather"
    /\ fin[run.pos + 1].photos[1].url = RgRef(Url("/a.jpg", "width=100", "top"))
    /\ fin[run.pos + 1].photos[1].rehostError \in RetryableTexts
    /\ ~fin[run.pos + 1].photos[1].missing
    /\ faultsLeft = 0
    /\ run.state[1] = "done"
    /\ MirroredUrl(run.photos[1].url)
    /\ run.photos[1].rehostError = None

\* C26: while DATABASE_URL or BLOB_READ_WRITE_TOKEN is not set, no step of a
\* driver opens, truncates or writes a file or calls the mapping store, the
\* vendor or the object store: the files and the stores stay as they were,
\* no call of cache_rg_image_to_blob starts, and the script ends at its
\* checks.
C26_NoIoWithoutConfig ==
    /\ [](~Configured
          => /\ run.pc \in {"off", "exit"}
             /\ \A t \in Tasks : task[t].pc = "idle"
             /\ db = <<>> /\ blob = <<>>
             /\ \A c \in Canons : downloads[c] = 0 /\ uploads[c] = 0)
    /\ [][~Configured
          => /\ UNCHANGED <<fin, fout, db, blob, vendor, task, downloads, uploads>>
             /\ run'.pc = "exit"]_vars

\* the token is not set: the batch script has ended at its check and the
\* output file of an earlier run is as it was
C26_Witness ==
    /\ run.script = "rehost" /\ run.pc = "exit"
    /\ run.env.DATABASE_URL /\ ~run.env.BLOB_READ_WRITE_TOKEN
    /\ fout = <<Line(RepairInput[1])>>
    /\ db = <<>> /\ blob = <<>>

\* C27: no step of a run of either driver changes the content of the input
\* file.
C27_InputNeverMutated == [][fin' = fin]_vars

\* C28: the mapping store holds one row per (source, originalUrl), the set of
\* its keys only grows over any sequence of resolve calls, and a write for a
\* key that has a row leaves in that row the publicUrl, sha256, contentType,
\* size, width, height and fileExtension of the write.
C28_Written(t) ==
    LET c == task[t].original_url
    IN  /\ c \in DOMAIN db'
        /\ db'[c].public_url = task[t].public_url
        /\ db'[c].sha256 = task[t].sha
        /\ db'[c].content_type = task[t].content_type
        /\ db'[c].bytes = SizeBytes(task[t].data)
        /\ db'[c].width = task[t].width
        /\ db'[c].height = task[t].height
        /\ db'[c].file_ext = task[t].ext
        /\ \A d \in DOMAIN db : d # c => db'[d] = db[d]

C28_KeysGrowRowsReplaced ==
    [][/\ DOMAIN db \subseteq DOMAIN db'
       /\ \A t \in Tasks :
            (task[t].pc = "upsert" /\ task'[t].pc = "returned" /\ task'[t].upsertOk)
                => C28_Written(t)]_vars

\* a second call, for another animal, has replaced the row of a first call
\* with what the vendor serves now
C28_Witness ==
    \E t \in Tasks :
        /\ task[t].pc = "returned"
        /\ task[t].upsertOk
        /\ task[t].data = Replaced.data
        /\ task[t].original_url \in DOMAIN db
        /\ db[task[t].original_url].source_entity_id # task[t].animal
        /\ db[task[t].original_url].sha256 = task[t].sha
        /\ db[task[t].original_url].file_ext = "bin"

\* C29: a publicUrl that is non-empty stays non-empty in every later state;
\* the publicUrl of a key is set or changed only by the upsert of a call for
\* that key that downloaded the bytes and uploaded them in this same call;
\* a call that ends on a cache hit leaves the store as it was.
C29_FreshWriter(t, c) ==
    /\ task[t].pc = "upsert"
    /\ task[t].original_url = c
    /\ ~task[t].hit
    /\ task[t].fetched = 1
    /\ task[t].data = vendor[c].data \/ vendor[c] = Replaced
    /\ task[t].puts >= 1
    /\ task[t].pathname \in DOMAIN blob
    /\ blob[task[t].pathname].data = task[t].data
    /\ task[t].public_url = BlobUrl(task[t].pathname)
    /\ db'[c].public_url = task[t].public_url

C29_PublicUrlStable ==
    [][/\ \A c \in DOMAIN db :
            db[c].public_url # "" => c \in DOMAIN db' /\ db'[c].public_url # ""
       /\ \A c \in DOMAIN db' :
            (c \notin DOMAIN db \/ db'[c].public_url # db[c].public_url)
                => \E t \in Tasks : C29_FreshWriter(t, c)
       /\ \A t \in Tasks : task'[t].hit => db' = db]_vars

\* a later call that missed the cache has changed the publicUrl a first call
\* had stored
C29_Witness ==
    \E t \in Tasks :
        /\ task[t].pc = "returned"
        /\ task[t].upsertOk
        /\ task[t].pred.exists
        /\ task[t].pred.stored
        /\ task[t].pred.result # task[t].result
        /\ db[task[t].original_url].public_url = task[t].result
        /\ db[task[t].original_url].public_url # ""

\* C30: a call that has reached its upsert returns the uploaded URL, whatever
\* the other calls do; and of two calls for one canonical URL that were in
\* flight together and downloaded the same bytes, once the store has
\* committed the upsert of either, the one row of the key holds the publicUrl
\* both calls returned, with the sha256 and the extension both computed.
C30_Overlapped(t) ==
    LET c == task[t].original_url
        p == lastDone[c]
    IN  /\ p # task[t].pred
        /\ p.exists /\ p.ok /\ ~p.hit
        /\ ~p.alone /\ ~task[t].alone
        /\ p.fetched = 1 /\ p.data = task[t].data
        /\ p.stored \/ task'[t].upsertOk

C30_Converged(t) ==
    LET c == task[t].original_url
        p == lastDone[c]
    IN  /\ c \in DOMAIN db'
        /\ db'[c].public_url = task'[t].result
        /\ db'[c].public_url = p.result
        /\ db'[c].sha256 = task[t].sha
        /\ db'[c].sha256 = Sha256(p.data)
        /\ db'[c].file_ext = task[t].ext
        /\ db'[c].file_ext = p.ext

C30_UpsertConverges ==
    [][\A t \in Tasks :
          (task[t].pc = "upsert" /\ task'[t].pc \in {"returned", "raised"}) =>
              /\ task'[t].pc = "returned"
              /\ task'[t].result = task[t].public_url
              /\ C30_Overlapped(t) => C30_Converged(t)]_vars

\* two calls for one URL each downloaded and uploaded its bytes and, no
\* collaborator having failed, each committed its upsert: the second to end
\* wrote over the row of the first
C30_Witness ==
    \E t \in Tasks :
        /\ task[t].pc = "returned"
        /\ task[t].upsertOk
        /\ ~task[t].alone
        /\ task[t].pred = NoCall
        /\ downloads[task[t].original_url] = 2
        /\ uploads[task[t].original_url] = 2
        /\ \A s \in Tasks : ~InFlight(s)
        /\ faultsLeft = PairFaults
        /\ db[task[t].original_url].public_url = task[t].result

\* C31: a call that downloaded a payload that is no decodable image, under a
\* content type outside the MIME table, goes on to the upload with extension
\* "bin" and no width or height; it ends in failure only when the upload
\* itself failed on all its attempts, and otherwise returns the public URL
\* of the object, which holds the payload.
C31_Undecodable(t) ==
    /\ task[t].data # None
    /\ PilFormat(task[t].data) = None
    /\ EXT_BY_CONTENT_TYPE(task[t].content_type) = None

C31_DecodeNeverAborts ==
    \A t \in Tasks :
        C31_Undecodable(t) =>
            /\ task[t].ext = "bin"
            /\ task[t].width = None /\ task[t].height = None
            /\ task[t].pathname = Pathname(Sha256(task[t].data), "bin")
            /\ task[t].pc \in {"put", "head", "upsert", "returned", "raised"}
            /\ task[t].pc = "raised" => task[t].puts = PutAttempts
            /\ task[t].pc = "returned" =>
                   /\ task[t].result = BlobUrl(task[t].pathname)
                   /\ task[t].pathname \in DOMAIN blob
                   /\ blob[task[t].pathname].data = task[t].data

\* a call has returned the public URL of a page of text it uploaded as .bin
C31_Witness ==
    \E t \in Tasks :
        /\ C31_Undecodable(t)
        /\ task[t].pc = "returned"
        /\ task[t].data = "junkB"
        /\ task[t].ext = "bin"
        /\ task[t].result = BlobUrl(Pathname(Sha256("junkB"), "bin"))

\* what is left of the text of a URL when the query and the fragment are
\* dropped: all that stands before the first "?" or "#", the scheme in
\* lower case
KeptText(text) ==
    LET colon == Find(text, ":", 1)
        cut == First({Find(text, "?", 1), Find(text, "#", 1)}, Len(text) + 1)
    IN  Lower(SubSeq(text, 1, colon - 1)) \o SubSeq(text, colon, cut - 1)

\* C32 as stated: the canonical form of a URL is its scheme, host and path
\* with the query and the fragment dropped; canonicalizing twice gives what
\* canonicalizing once gives; the batch driver's canonicalizer and the
\* orchestrator's give the same key, by either route.
C32_Canonical ==
    LET text == fin[1].photos[1].url.text
    IN  /\ OrchestratorKey(text) = KeptText(text)
        /\ OrchestratorKey(OrchestratorKey(text)) = OrchestratorKey(text)
        /\ DriverKey(text) = OrchestratorKey(text)
        /\ \A t \in Tasks :
              task[t].pc \in {"canonical", "keyed"} =>
                  task[t].original_url.text = KeptText(text)

\* C33: within a call that missed the cache the download comes before the
\* upload and the upload before the upsert: a call is at its upload only
\* with the payload it fetched, at its upsert only with the URL the object
\* store gave for its pathname, and a call that failed made no upsert, and
\* no put when it was the download that failed.  So every row of the mapping
\* store has a non-empty publicUrl, the one of the object at the path built
\* from the row's sha256 and fileExtension.
C33_StepOrder ==
    /\ \A t \in Tasks :
          /\ task[t].pc \in {"lookup", "download"} =>
                 task[t].puts = 0 /\ task[t].heads = 0 /\ task[t].upserts = 0
          /\ task[t].pc \in {"put", "head"} =>
                 task[t].fetched = 1 /\ task[t].data # None /\ task[t].upserts = 0
          /\ task[t].pc = "upsert" =>
                 /\ task[t].fetched = 1 /\ task[t].puts >= 1
                 /\ task[t].public_url = BlobUrl(task[t].pathname)
                 /\ task[t].pathname \in DOMAIN blob
          /\ task[t].pc = "raised" =>
                 /\ task[t].upserts = 0
                 /\ task[t].fetched = 0 => task[t].puts = 0 /\ task[t].heads = 0
          /\ task[t].upserts > 0 => task[t].fetched = 1 /\ task[t].puts >= 1
    /\ \A c \in DOMAIN db :
          /\ db[c].public_url \notin {"", None}
          /\ db[c].public_url = BlobUrl(Pathname(db[c].sha256, db[c].file_ext))
          /\ Pathname(db[c].sha256, db[c].file_ext) \in DOMAIN blob

\* a call whose every put failed has ended without an upsert and the key has
\* no row
C33_Witness ==
    \E t \in Tasks :
        /\ task[t].pc = "raised"
        /\ task[t].fetched = 1
        /\ task[t].puts = PutAttempts
        /\ task[t].upserts = 0
        /\ task[t].original_url \notin DOMAIN db

\* C34: both drivers work on one record at a time.  A call is in flight only
\* during the gather of the record being read, for a photo of that record,
\* when the lines of all the records before it in this run have been
\* written; and a record is read only when no call is in flight and every
\* slot of the semaphore is free.
C34_OneRecordAtATime ==
    /\ [](\A t \in Tasks :
             InFlight(t) /\ run.script # "none" =>
                 /\ run.pc = "gather"
                 /\ run.pos = run.skip + run.processed
                 /\ t \in DOMAIN run.photos
                 /\ run.state[t] = "running"
                 /\ task[t].animal = fin[run.pos + 1].sourceAnimalId
                 /\ task[t].url = fin[run.pos + 1].photos[t].url.parsed)
    /\ [][(run.pc = "loop" /\ run'.pc = "gather") =>
             /\ \A t \in Tasks : ~InFlight(t)
             /\ sem = SemSize(concurrency)
             /\ fout' = fout
             /\ run.kept = <<>> => Len(fout) = run.processed]_vars

\* a call for a photo of the second record is in flight and the line of the
\* first record is in the output
C34_Witness ==
    /\ run.pc = "gather"
    /\ run.kept = <<>> /\ run.processed = 1 /\ run.pos = 1
    /\ Len(fout) = 1
    /\ fout[1].rec.sourceAnimalId = fin[1].sourceAnimalId
    /\ \E t \in Tasks : InFlight(t) /\ task[t].animal = fin[2].sourceAnimalId

\* the attempts the loop of a phase allows
C35_Attempts(t, phase) ==
    CASE phase = "download" -> dlAttempts
      [] phase = "put" -> PutAttempts
      [] OTHER -> DbAttempts

\* C35: whatever the collaborators answer, a call makes at most 3 lookups,
\* 5 fetches, 4 puts with at most one head each, and 3 upserts; it waits
\* only between two attempts of one step, never after the last; and every
\* call that has started ends, returning or raising.
C35_Terminates ==
    /\ [](\A t \in Tasks :
             /\ task[t].lookups <= DbAttempts
             /\ task[t].fetches <= DownloadAttempts
             /\ task[t].puts <= PutAttempts
             /\ task[t].heads <= task[t].puts
             /\ task[t].upserts <= DbAttempts
             /\ task[t].lastSleep # NoSleep =>
                    /\ task[t].pc = task[t].lastSleep.phase
                    /\ task[t].attempt = task[t].lastSleep.attempt + 1
                    /\ task[t].attempt < C35_Attempts(t, task[t].pc))
    /\ (\E t \in Tasks : InFlight(t)) ~> (\E t \in Tasks : Ended(t))

\* a call has returned after three failed lookups, four failed fetches, three
\* refused puts and two failed upserts
C35_Witness ==
    \E t \in Tasks :
        /\ task[t].pc = "returned"
        /\ task[t].lookups = DbAttempts
        /\ task[t].fetches = DownloadAttempts
        /\ task[t].puts = PutAttempts
        /\ task[t].upserts = DbAttempts
        /\ task[t].upsertOk

\* C36: the slot of a call is given back in the step that ends the call,
\* whether it returned or raised; so a run that is not interrupted and has
\* no --limit, with --concurrency 1 or more and whatever fails, comes to its
\* end, with every slot free and one line in the output for every record of
\* the input.
C36_NoSlotLeaked ==
    /\ [][\A t \in Tasks :
             (InFlight(t) /\ ~InFlight(t)') =>
                 /\ task'[t].pc \in {"returned", "raised"}
                 /\ sem' = sem + 1]_vars
    /\ [](run.pc = "done" =>
             /\ sem = SemSize(concurrency)
             /\ Len(fout) = Len(fin)
             /\ \A i \in DOMAIN fout :
                   /\ fout[i].whole
                   /\ fout[i].rec.sourceAnimalId = fin[i].sourceAnimalId)
    /\ (run.pc \in {"loop", "gather"}) ~> (run.pc = "done")

\* a run has ended with a line for every record, all slots free, after calls
\* that returned and a call that raised
C36_Witness ==
    /\ run.pc = "done"
    /\ run.failed >= 1 /\ run.changed >= 1
    /\ Len(fout) = Len(fin) /\ Len(fin) = 2
    /\ sem = SemSize(concurrency)

\* the mapping store holds a public URL for c
C37_Mapped(c) == c \in DOMAIN db /\ db[c].public_url \notin {"", None}

\* C37: a lookup that the store answers is the last of its call: with a
\* non-empty publicUrl in the row it is a hit and the call returns, and with
\* no row or an empty publicUrl the call goes on to its first fetch at once,
\* without a wait.  Only a lookup that failed is followed by another one,
\* and the third failure by the download.
C37_MissNotRetried ==
    [][\A t \in Tasks :
          (task[t].pc = "lookup" /\ task'[t].lookups = task[t].lookups + 1) =>
              IF faultsLeft' = faultsLeft
              THEN IF C37_Mapped(task[t].original_url)
                   THEN task'[t].pc = "returned" /\ task'[t].hit
                   ELSE /\ task'[t].pc = "download"
                        /\ task'[t].attempt = 0 /\ task'[t].fetches = 0
                        /\ task'[t].lastSleep = NoSleep
                        /\ ~task'[t].lookupGaveUp /\ ~task'[t].hit
              ELSE IF task[t].attempt < DbAttempts - 1
                   THEN task'[t].pc = "lookup" /\ task'[t].lastSleep # NoSleep
                   ELSE task'[t].pc = "download" /\ task'[t].lookupGaveUp]_vars

\* a call stands before its first fetch after one lookup that found a row
\* with an empty publicUrl
C37_Witness ==
    \E t \in Tasks :
        /\ task[t].pc = "download"
        /\ task[t].lookups = 1 /\ task[t].fetches = 0
        /\ ~task[t].lookupGaveUp
        /\ task[t].original_url \in DOMAIN db
        /\ db[task[t].original_url].public_url = ""

\* C38: a run of the batch driver with --limit N writes at most N records,
\* counted from the start of the run: a resumed run keeps the lines it finds
\* in the output, skips as many records of the input, and still writes up to
\* N more; a run without --resume, or with no output to resume from, starts
\* from an empty output at the first record.  A run that comes to its end
\* has written the records left in the input, or N of them.
C38_LimitPerRun ==
    /\ [](run.script = "rehost" /\ run.pc \in {"loop", "gather", "done"} =>
             /\ run.limit > 0 => run.processed <= run.limit
             /\ run.pos = Min(run.skip, Len(fin)) + run.processed
             /\ run.pc = "done" =>
                    run.processed =
                        IF run.limit > 0
                        THEN Min(run.limit, Len(fin) - Min(run.skip, Len(fin)))
                        ELSE Len(fin) - Min(run.skip, Len(fin)))
    /\ [][(run.script = "rehost" /\ run'.runs = run.runs + 1) =>
             /\ run'.processed = 0
             /\ IF run'.resume /\ fout # <<>>
                THEN fout' = fout /\ run'.skip = count_lines(fout)
                ELSE fout' = <<>> /\ run'.skip = 0 /\ run'.pos = 0]_vars

\* a resumed run with --limit 1 found one line in the output and has written
\* the second record behind it
C38_Witness ==
    /\ run.script = "rehost" /\ run.pc = "done"
    /\ run.resume /\ run.limit = 1
    /\ run.skip = 1 /\ run.processed = 1
    /\ Len(run.kept) = 1 /\ Len(fout) = 2

\* a reference as the repair pass leaves it when it has dealt with it:
\* marked missing, or pointing at the object store, and without rehostError
C39_Settled(photo) ==
    /\ photo.rehostError = None
    /\ \/ photo.url = EmptyRef /\ photo.missing
       \/ /\ StartsWith(photo.url.text, "https://" \o BlobHost \o "/pets/")
          /\ ~photo.missing

\* C39: every reference a repair pass changed is marked missing without
\* rehostError, or points at the object store without rehostError, or only
\* carries a new rehostError; and a repair pass makes no call for a reference
\* of the first two kinds in its input and writes it as it read it.
C39_RepairStable ==
    /\ [][(run.script = "repair" /\ run'.pc = "done" /\ run.pc # "done") =>
             \A i \in DOMAIN fout : \A j \in DOMAIN fin[i].photos :
                 fout[i].rec.photos[j] # fin[i].photos[j] =>
                     \/ C39_Settled(fout[i].rec.photos[j])
                     \/ /\ fout[i].rec.photos[j].rehostError # None
                        /\ fout[i].rec.photos[j].url = fin[i].photos[j].url
                        /\ fout[i].rec.photos[j].missing
                               = fin[i].photos[j].missing]_vars
    /\ [](run.script = "repair" /\ run.pc = "gather" =>
             \A j \in DOMAIN run.photos :
                 C39_Settled(fin[run.pos + 1].photos[j]) =>
                     /\ run.state[j] = "skipped"
                     /\ run.photos[j] = fin[run.pos + 1].photos[j]
                     /\ ~InFlight(j))
    /\ [](run.script = "repair" /\ run.pc \in {"loop", "gather", "done"} =>
             \A i \in DOMAIN fout : \A j \in DOMAIN fin[i].photos :
                 C39_Settled(fin[i].photos[j]) =>
                     fout[i].rec.photos[j] = fin[i].photos[j])

\* a second pass over the output of a first one has written, as it read
\* them, a reference the first pass marked missing and one it repaired
C39_Witness ==
    /\ run.script = "repair" /\ run.pc = "done" /\ Len(fout) = 2
    /\ fin[1].photos[1].url = EmptyRef /\ fin[1].photos[1].missing
    /\ fin[2].photos[2].url # RepairInput[2].photos[2].url
    /\ C39_Settled(fin[2].photos[2])
    /\ fout[1].rec = fin[1]
    /\ fout[2].rec.photos[2] = fin[2].photos[2]

\* the fields of a row an upsert derives from the download
C40_Derived(row) ==
    <<row.public_url, row.sha256, row.content_type, row.bytes, row.width,
      row.height, row.file_ext>>

\* C40: a step that changes the row of an existing key is the upsert of a
\* call for that key; it leaves source_entity, source_entity_id and
\* source_media_id as they were and sets the derived fields to the call's.
C40_LinkageKept ==
    [][\A c \in DOMAIN db :
          db'[c] # db[c] =>
              /\ db'[c].source_entity = db[c].source_entity
              /\ db'[c].source_entity_id = db[c].source_entity_id
              /\ db'[c].source_media_id = db[c].source_media_id
              /\ \E t \in Tasks :
                    /\ task[t].pc = "upsert" /\ task[t].original_url = c
                    /\ task'[t].upsertOk
                    /\ C40_Derived(db'[c]) = C40_Derived(Row(t))]_vars

\* a call for another animal has rewritten the content of a row written
\* before, which still names the first writer's animal and media id
C40_Witness ==
    \E t \in Tasks :
        /\ Ended(t) /\ task[t].upsertOk
        /\ db[task[t].original_url].source_entity_id = "7"
        /\ db[task[t].original_url].source_media_id = "m1"
        /\ task[t].animal # "7"
        /\ db[task[t].original_url].sha256 = task[t].sha
        /\ db[task[t].original_url].public_url = task[t].public_url

====
